---- MODULE Spec2Model ----
(***************************************************************************)
(* A model of the nativ Python SDK: the status-to-exception mapping of the *)
(* transport adapter (_client.py), the request encoder of translate        *)
(* (_client.py), the response decoders (_types.py, _client.py) and the     *)
(* operations of the two clients, Nativ and AsyncNativ (_client.py).       *)
(*                                                                         *)
(* Python values are tagged records, so that None, "", 0, [] and {} stay   *)
(* distinct and truthiness, str() and dict.get() can be computed the way   *)
(* the interpreter computes them.                                          *)
(***************************************************************************)
EXTENDS Integers, Sequences, FiniteSets, TLC

VARIABLES
    call,       \* the operation last invoked, with its arguments
    outcome,    \* what it did: a returned value or a raised exception
    sent,       \* the HTTP requests the client has issued, in order
    received,   \* what came back for them, in order: a response or a
                \* transport failure
    results,    \* the Translations translate_batch has collected so far
    self,       \* the attributes of the client object
    pc,         \* where a call that takes several steps stands
    stderr      \* the lines the command line has printed to sys.stderr

vars == <<call, outcome, sent, received, results, self, pc, stderr>>

(***************************************************************************)
(* Bounds of the model.                                                    *)
(***************************************************************************)
\* the largest HTTP status code a response carries (codes run from 200)
MaxStatus == 599
\* the longest list (top_matches, images, languages, ...) in a payload
MaxListLen == 2

(***************************************************************************)
(* Python / JSON values.                                                   *)
(***************************************************************************)
None == [t |-> "null"]
JStr(s) == [t |-> "str", s |-> s]
JNum(n) == [t |-> "num", n |-> n]
JBool(b) == [t |-> "bool", b |-> b]
JList(l) == [t |-> "list", l |-> l]
JObj(o) == [t |-> "obj", o |-> o]

\* the dict with no keys, and the dict with one key
EmptyDict == [k \in {} |-> None]
Dict1(k, v) == [x \in {k} |-> v]

\* d restricted to the keys in K: the payload with the other keys removed
Restrict(d, K) == [k \in (DOMAIN d) \cap K |-> d[k]]

\* dict.get(key, default) on the mapping d
Get(d, key, default) == IF key \in DOMAIN d THEN d[key] ELSE default

\* bool(v): Python truthiness
Truthy(v) ==
    CASE v.t = "null" -> FALSE
      [] v.t = "bool" -> v.b
      [] v.t = "num"  -> v.n # 0
      [] v.t = "str"  -> v.s # ""
      [] v.t = "list" -> v.l # <<>>
      [] v.t = "obj"  -> DOMAIN v.o # {}

\* repr(v) of a value inside a list: a str is quoted
RECURSIVE Repr(_)
Repr(v) ==
    LET RECURSIVE Join(_)
        Join(l) == IF l = <<>> THEN ""
                   ELSE IF Len(l) = 1 THEN Repr(l[1])
                   ELSE Repr(l[1]) \o ", " \o Join(Tail(l))
    IN CASE v.t = "null" -> "None"
         [] v.t = "bool" -> IF v.b THEN "True" ELSE "False"
         [] v.t = "num"  -> ToString(v.n)
         [] v.t = "str"  -> "'" \o v.s \o "'"
         [] v.t = "list" -> "[" \o Join(v.l) \o "]"
         [] v.t = "obj" /\ DOMAIN v.o = {} -> "{}"

\* str(v), as f"{v}" and str() compute it: a str is itself, the rest is repr
Str(v) == IF v.t = "str" THEN v.s ELSE Repr(v)

(***************************************************************************)
(* Outcomes of a call.                                                     *)
(***************************************************************************)
Returned(v) == [kind |-> "return", value |-> v]

\* a member of the SDK's hierarchy: NativError.__init__ keeps the message,
\* the status code and the body
NativError(exc, message, status_code, body) ==
    [kind |-> "raise", exc |-> exc, message |-> message,
     status_code |-> status_code, body |-> body]

\* an exception of the interpreter or of a library, outside the hierarchy
Raised(exc) == [kind |-> "raise", exc |-> exc]

\* the six leaf kinds of _exceptions.py
NativErrors ==
    {"AuthenticationError", "InsufficientCreditsError", "ValidationError",
     "NotFoundError", "RateLimitError", "ServerError"}

(***************************************************************************)
(* HTTP responses: a status code and the text of the body.                 *)
(***************************************************************************)
StatusCodes == 200 .. MaxStatus

\* the texts of a server that answers POST /master-tm/entries with the entry
\* it was sent, without and with a source_name
EchoedEntry ==
    "{\"source_text\": \"Hello\", \"target_text\": \"Bonjour\", \"source_language_code\": \"en\", \"target_language_code\": \"fr-FR\", \"information_source\": \"manual\"}"
EchoedNamedEntry ==
    "{\"source_text\": \"Hello\", \"target_text\": \"Bonjour\", \"source_language_code\": \"en\", \"target_language_code\": \"fr-FR\", \"information_source\": \"manual\", \"source_name\": \"hero\"}"

\* json.loads on the response texts of the model; any other text is not
\* JSON and makes resp.json() raise
JsonLoads(text) ==
    CASE text = "{}" -> [ok |-> TRUE, v |-> JObj(EmptyDict)]
      [] text = "{\"detail\": \"test error\"}" ->
            [ok |-> TRUE, v |-> JObj(Dict1("detail", JStr("test error")))]
      [] text = "{\"detail\": \"\"}" ->
            [ok |-> TRUE, v |-> JObj(Dict1("detail", JStr("")))]
      [] text = "{\"detail\": null}" ->
            [ok |-> TRUE, v |-> JObj(Dict1("detail", None))]
      [] text = "{\"detail\": 0}" ->
            [ok |-> TRUE, v |-> JObj(Dict1("detail", JNum(0)))]
      [] text = "{\"detail\": 7}" ->
            [ok |-> TRUE, v |-> JObj(Dict1("detail", JNum(7)))]
      [] text = "{\"detail\": []}" ->
            [ok |-> TRUE, v |-> JObj(Dict1("detail", JList(<<>>)))]
      [] text = "{\"detail\": [\"bad\"]}" ->
            [ok |-> TRUE, v |-> JObj(Dict1("detail", JList(<<JStr("bad")>>)))]
      [] text = "{\"error\": \"quota\"}" ->
            [ok |-> TRUE, v |-> JObj(Dict1("error", JStr("quota")))]
      [] text = "{\"success\": true}" ->
            [ok |-> TRUE, v |-> JObj(Dict1("success", JBool(TRUE)))]
      [] text = "{\"translated_text\": \"Bonjour\"}" ->
            [ok |-> TRUE, v |-> JObj(Dict1("translated_text", JStr("Bonjour")))]
      [] text = "{\"id\": 7, \"title\": \"Tone\"}" ->
            [ok |-> TRUE, v |-> JObj([id |-> JNum(7), title |-> JStr("Tone")])]
      [] text = EchoedEntry ->
            [ok |-> TRUE,
             v |-> JObj([source_text |-> JStr("Hello"),
                         target_text |-> JStr("Bonjour"),
                         source_language_code |-> JStr("en"),
                         target_language_code |-> JStr("fr-FR"),
                         information_source |-> JStr("manual")])]
      [] text = EchoedNamedEntry ->
            [ok |-> TRUE,
             v |-> JObj([source_text |-> JStr("Hello"),
                         target_text |-> JStr("Bonjour"),
                         source_language_code |-> JStr("en"),
                         target_language_code |-> JStr("fr-FR"),
                         information_source |-> JStr("manual"),
                         source_name |-> JStr("hero")])]
      [] text = "[]" -> [ok |-> TRUE, v |-> JList(<<>>)]
      [] text = "[\"a\"]" -> [ok |-> TRUE, v |-> JList(<<JStr("a")>>)]
      [] text = "\"oops\"" -> [ok |-> TRUE, v |-> JStr("oops")]
      [] text = "null" -> [ok |-> TRUE, v |-> None]
      [] text = "42" -> [ok |-> TRUE, v |-> JNum(42)]
      [] text = "true" -> [ok |-> TRUE, v |-> JBool(TRUE)]
      [] OTHER -> [ok |-> FALSE]

ResponseTexts ==
    {"", "Internal Server Error", "<html>Bad Gateway</html>",
     "{}", "{\"detail\": \"test error\"}", "{\"detail\": \"\"}",
     "{\"detail\": null}", "{\"detail\": 0}", "{\"detail\": 7}",
     "{\"detail\": []}", "{\"detail\": [\"bad\"]}", "{\"error\": \"quota\"}",
     "{\"success\": true}", "{\"translated_text\": \"Bonjour\"}",
     "{\"id\": 7, \"title\": \"Tone\"}", EchoedEntry, EchoedNamedEntry,
     "[]", "[\"a\"]", "\"oops\"", "null", "42", "true"}

Responses == [status_code : StatusCodes, text : ResponseTexts]

\* httpx.Response.is_success, as _raise_for_status reads it
is_success(resp) == resp.status_code >= 200 /\ resp.status_code <= 299

(***************************************************************************)
(* _raise_for_status                                                       *)
(***************************************************************************)
\* try: body = resp.json()  except Exception: body = {"detail": resp.text}
error_body(resp) ==
    LET parsed == JsonLoads(resp.text)
    IN IF parsed.ok THEN parsed.v ELSE JObj(Dict1("detail", JStr(resp.text)))

\* the claimed rule: the detail field, else "HTTP <status>"
error_message_detail_only(resp, body) ==
    IF "detail" \in DOMAIN body.o /\ Truthy(body.o["detail"])
    THEN Str(body.o["detail"])
    ELSE "HTTP " \o ToString(resp.status_code)

\* detail = body.get("detail", resp.text)
\* msg = f"{detail}" if detail else f"HTTP {resp.status_code}"
error_message(resp, body) ==
    LET detail == Get(body.o, "detail", JStr(resp.text))
    IN IF Truthy(detail) THEN Str(detail)
       ELSE "HTTP " \o ToString(resp.status_code)

exc_map ==
    [s \in {401, 402, 404, 429} |->
        CASE s = 401 -> "AuthenticationError"
          [] s = 402 -> "InsufficientCreditsError"
          [] s = 404 -> "NotFoundError"
          [] s = 429 -> "RateLimitError"]

\* the exception class chosen for a non-2xx status
error_class(status_code) ==
    IF status_code \in DOMAIN exc_map THEN exc_map[status_code]
    ELSE IF 400 <= status_code /\ status_code < 500 THEN "ValidationError"
    ELSE "ServerError"

\* Returned(None) when the response is a success, else the exception raised.
\* body.get on a parsed body that is no dict (a list, a str, a number, None)
\* raises AttributeError before any NativError is built.
_raise_for_status(resp) ==
    IF is_success(resp) THEN Returned(None)
    ELSE LET body == error_body(resp)
         IN IF body.t # "obj" THEN Raised("AttributeError")
            ELSE NativError(error_class(resp.status_code),
                            error_message(resp, body),
                            resp.status_code, body)

(***************************************************************************)
(* Nativ._request / AsyncNativ._request, given the response received       *)
(***************************************************************************)
\* a variant that takes an unreadable body of a success for an empty object
_request_lenient(resp) ==
    LET checked == _raise_for_status(resp)
        parsed == JsonLoads(resp.text)
    IN IF checked.kind = "raise" THEN checked
       ELSE IF parsed.ok THEN Returned(parsed.v)
       ELSE Returned(JObj(EmptyDict))

_request(resp) ==
    LET checked == _raise_for_status(resp)
        parsed == JsonLoads(resp.text)
    IN IF checked.kind = "raise" THEN checked
       ELSE IF parsed.ok THEN Returned(parsed.v)
       ELSE Raised("JSONDecodeError")

(***************************************************************************)
(* _build_translate_body                                                   *)
(***************************************************************************)
\* body[key] = value
SetItem(body, key, value) == Dict1(key, value) @@ body

\* the eight keys every body is created with
base_translate_body(a) ==
    [text |-> a.text,
     language |-> a.target_language,
     source_language |-> a.source_language,
     source_language_code |-> a.source_language_code,
     tool |-> JStr("api"),
     include_tm_info |-> a.include_tm_info,
     backtranslate |-> a.backtranslate,
     include_rationale |-> a.include_rationale]

\* a variant that copies context into the body whether or not it was given
_build_translate_body_null_context(a) ==
    LET b0 == base_translate_body(a)
        b1 == IF Truthy(a.target_language_code)
              THEN SetItem(b0, "language_code", a.target_language_code) ELSE b0
        b2 == SetItem(b1, "context", a.context)
        b3 == IF Truthy(a.glossary) THEN SetItem(b2, "glossary", a.glossary) ELSE b2
        b4 == IF Truthy(a.formality) THEN SetItem(b3, "formality", a.formality) ELSE b3
        b5 == IF a.max_characters # None
              THEN SetItem(b4, "max_characters", a.max_characters) ELSE b4
    IN b5

\* a variant that tests max_characters for truth, as the string options are
_build_translate_body_truthy_max(a) ==
    LET b0 == base_translate_body(a)
        b1 == IF Truthy(a.target_language_code)
              THEN SetItem(b0, "language_code", a.target_language_code) ELSE b0
        b2 == IF Truthy(a.context) THEN SetItem(b1, "context", a.context) ELSE b1
        b3 == IF Truthy(a.glossary) THEN SetItem(b2, "glossary", a.glossary) ELSE b2
        b4 == IF Truthy(a.formality) THEN SetItem(b3, "formality", a.formality) ELSE b3
        b5 == IF Truthy(a.max_characters)
              THEN SetItem(b4, "max_characters", a.max_characters) ELSE b4
    IN b5

\* if target_language_code: ...  if context: ...  if glossary: ...
\* if formality: ...  if max_characters is not None: ...
_build_translate_body(a) ==
    LET b0 == base_translate_body(a)
        b1 == IF Truthy(a.target_language_code)
              THEN SetItem(b0, "language_code", a.target_language_code) ELSE b0
        b2 == IF Truthy(a.context) THEN SetItem(b1, "context", a.context) ELSE b1
        b3 == IF Truthy(a.glossary) THEN SetItem(b2, "glossary", a.glossary) ELSE b2
        b4 == IF Truthy(a.formality) THEN SetItem(b3, "formality", a.formality) ELSE b3
        b5 == IF a.max_characters # None
              THEN SetItem(b4, "max_characters", a.max_characters) ELSE b4
    IN b5

\* the keyword parameters of _build_translate_body (and of translate)
TranslateKeywords ==
    {"target_language_code", "source_language", "source_language_code",
     "context", "glossary", "formality", "max_characters",
     "include_tm_info", "backtranslate", "include_rationale"}

\* a variant whose include_rationale defaults to False, as translate_batch
\* passes it
translate_defaults_no_rationale ==
    [target_language_code |-> None,
     source_language |-> JStr("English"),
     source_language_code |-> JStr("en"),
     context |-> None, glossary |-> None, formality |-> None,
     max_characters |-> None,
     include_tm_info |-> JBool(TRUE),
     backtranslate |-> JBool(FALSE),
     include_rationale |-> JBool(FALSE)]

\* the defaults of the signature
translate_defaults ==
    [target_language_code |-> None,
     source_language |-> JStr("English"),
     source_language_code |-> JStr("en"),
     context |-> None, glossary |-> None, formality |-> None,
     max_characters |-> None,
     include_tm_info |-> JBool(TRUE),
     backtranslate |-> JBool(FALSE),
     include_rationale |-> JBool(TRUE)]

\* the parameters as the function body sees them: a keyword the caller did
\* not pass has its default
bind_translate_args(supplied, a) ==
    [k \in DOMAIN a |->
        IF k \in TranslateKeywords \ supplied THEN translate_defaults[k] ELSE a[k]]

\* the arguments of a translate call: Optional[str] and Optional[int]
\* options are None, empty/zero or a value
OptStr(s) == {None, JStr(""), JStr(s)}
SourceLanguages == {<<"English", "en">>, <<"German", "de">>}

TranslateArgs ==
    {[text |-> JStr(text),
      target_language |-> JStr("French"),
      target_language_code |-> tlc,
      source_language |-> JStr(src[1]),
      source_language_code |-> JStr(src[2]),
      context |-> ctx,
      glossary |-> glo,
      formality |-> frm,
      max_characters |-> mc,
      include_tm_info |-> JBool(tm),
      backtranslate |-> JBool(bt),
      include_rationale |-> JBool(ra)] :
        text \in {"hello", ""}, tlc \in OptStr("fr"), src \in SourceLanguages,
        ctx \in OptStr("button"), glo \in OptStr("a,b"),
        frm \in OptStr("formal"), mc \in {None, JNum(0), JNum(50)},
        tm \in BOOLEAN, bt \in BOOLEAN, ra \in BOOLEAN}

\* arguments that all differ from the defaults
NonDefaultArgs ==
    {[text |-> JStr(text),
      target_language |-> JStr("French"),
      target_language_code |-> JStr("fr"),
      source_language |-> JStr("German"),
      source_language_code |-> JStr("de"),
      context |-> JStr("button"),
      glossary |-> JStr("a,b"),
      formality |-> JStr("formal"),
      max_characters |-> JNum(50),
      include_tm_info |-> JBool(FALSE),
      backtranslate |-> JBool(TRUE),
      include_rationale |-> JBool(FALSE)] : text \in {"hello", ""}}

(***************************************************************************)
(* Response decoders of _types.py                                          *)
(***************************************************************************)
\* TMMatchDetail(...) built from one element m of top_matches
parse_tm_match_detail(m) ==
    [tm_id |-> Get(m.o, "tm_id", JStr("")),
     score |-> Get(m.o, "score", JNum(0)),
     match_type |-> Get(m.o, "match_type", JStr("")),
     source_text |-> Get(m.o, "source_text", JStr("")),
     target_text |-> Get(m.o, "target_text", JStr("")),
     information_source |-> Get(m.o, "information_source", JStr("")),
     source_name |-> Get(m.o, "source_name", JStr(""))]

\* top = [TMMatchDetail(...) for m in tm_raw.get("top_matches", [])]
parse_top_matches(tm_raw) ==
    LET l == Get(tm_raw, "top_matches", JList(<<>>)).l
    IN [i \in 1 .. Len(l) |-> parse_tm_match_detail(l[i])]

\* TMMatch(...) built from the dict tm_raw
parse_tm_match(tm_raw) ==
    [score |-> Get(tm_raw, "score", JNum(0)),
     match_type |-> Get(tm_raw, "match_type", JStr("")),
     source_text |-> Get(tm_raw, "source_text", None),
     target_text |-> Get(tm_raw, "target_text", None),
     tm_source |-> Get(tm_raw, "tm_source", None),
     tm_source_name |-> Get(tm_raw, "tm_source_name", None),
     tm_id |-> Get(tm_raw, "tm_id", None),
     top_matches |-> parse_top_matches(tm_raw)]

\* a variant that promotes a zero-score match
tm_match_present_nonneg(tm_raw) ==
    Truthy(tm_raw) /\ Get(tm_raw.o, "score", JNum(0)).n >= 0

\* if tm_raw and tm_raw.get("score", 0) > 0
tm_match_present(tm_raw) ==
    Truthy(tm_raw) /\ Get(tm_raw.o, "score", JNum(0)).n > 0

\* a variant that leaves an absent count null
parse_translation_metadata_no_default(data) ==
    LET meta_raw == Get(data, "metadata", JObj(EmptyDict)).o
    IN [word_count |-> Get(meta_raw, "word_count", None),
        cost |-> Get(meta_raw, "cost", None)]

\* meta_raw = data.get("metadata", {}); TranslationMetadata(...)
parse_translation_metadata(data) ==
    LET meta_raw == Get(data, "metadata", JObj(EmptyDict)).o
    IN [word_count |-> Get(meta_raw, "word_count", JNum(0)),
        cost |-> Get(meta_raw, "cost", JNum(0))]

_parse_translation(data) ==
    LET tm_raw == Get(data, "tm_match", None)
    IN [translated_text |-> Get(data, "translated_text", JStr("")),
        metadata |-> parse_translation_metadata(data),
        tm_match |-> IF tm_match_present(tm_raw)
                     THEN parse_tm_match(tm_raw.o) ELSE None,
        rationale |-> Get(data, "rationale", None),
        backtranslation |-> Get(data, "backtranslation", None)]

\* a variant that takes the default with `or`: false and 0 become true, 50
_parse_tm_entry_or_default(data) ==
    LET enabled == Get(data, "enabled", None)
        priority == Get(data, "priority", None)
    IN [id |-> Get(data, "id", JStr("")),
        user_id |-> Get(data, "user_id", JNum(0)),
        end_user_id |-> Get(data, "end_user_id", None),
        source_language_code |-> Get(data, "source_language_code", JStr("")),
        source_text |-> Get(data, "source_text", JStr("")),
        target_language_code |-> Get(data, "target_language_code", JStr("")),
        target_text |-> Get(data, "target_text", JStr("")),
        information_source |-> Get(data, "information_source", JStr("")),
        source_name |-> Get(data, "source_name", None),
        enabled |-> IF Truthy(enabled) THEN enabled ELSE JBool(TRUE),
        priority |-> IF Truthy(priority) THEN priority ELSE JNum(50),
        created_at |-> Get(data, "created_at", None),
        updated_at |-> Get(data, "updated_at", None),
        match_score |-> Get(data, "match_score", None)]

_parse_tm_entry(data) ==
    [id |-> Get(data, "id", JStr("")),
     user_id |-> Get(data, "user_id", JNum(0)),
     end_user_id |-> Get(data, "end_user_id", None),
     source_language_code |-> Get(data, "source_language_code", JStr("")),
     source_text |-> Get(data, "source_text", JStr("")),
     target_language_code |-> Get(data, "target_language_code", JStr("")),
     target_text |-> Get(data, "target_text", JStr("")),
     information_source |-> Get(data, "information_source", JStr("")),
     source_name |-> Get(data, "source_name", None),
     enabled |-> Get(data, "enabled", JBool(TRUE)),
     priority |-> Get(data, "priority", JNum(50)),
     created_at |-> Get(data, "created_at", None),
     updated_at |-> Get(data, "updated_at", None),
     match_score |-> Get(data, "match_score", None)]

\* a variant that keeps the id as the server sent it
_parse_style_guide_raw_id(data) ==
    [id |-> Get(data, "id", JStr("")),
     title |-> Get(data, "title", JStr("")),
     content |-> Get(data, "content", JStr("")),
     is_enabled |-> Get(data, "is_enabled", JBool(TRUE)),
     display_order |-> Get(data, "display_order", JNum(0)),
     user_id |-> Get(data, "user_id", None)]

_parse_style_guide(data) ==
    [id |-> JStr(Str(Get(data, "id", JStr("")))),
     title |-> Get(data, "title", JStr("")),
     content |-> Get(data, "content", JStr("")),
     is_enabled |-> Get(data, "is_enabled", JBool(TRUE)),
     display_order |-> Get(data, "display_order", JNum(0)),
     user_id |-> Get(data, "user_id", None)]

(***************************************************************************)
(* Response decoders of _client.py.  d[key] on a dict without the key      *)
(* raises KeyError.                                                        *)
(***************************************************************************)
\* some element of the list l lacks one of the keys
LacksKey(l, keys) == \E i \in 1 .. Len(l) : ~(keys \subseteq DOMAIN l[i].o)

_parse_image_result(data) ==
    LET imgs == Get(data, "images", JList(<<>>)).l
        meta_raw == Get(data, "metadata", JObj(EmptyDict)).o
        image(img) == [image_base64 |-> img.o["image_base64"]]
    IN IF LacksKey(imgs, {"image_base64"}) THEN Raised("KeyError")
       ELSE Returned([images |-> [i \in 1 .. Len(imgs) |-> image(imgs[i])],
                      metadata |-> [cost |-> Get(meta_raw, "cost", JNum(0)),
                                    num_images |-> Get(meta_raw, "num_images", JNum(0))]])

_parse_inspection(data) ==
    LET cs == Get(data, "affected_countries", JList(<<>>)).l
        affected(c) == [country |-> c.o["country"], issue |-> c.o["issue"],
                        suggestion |-> c.o["suggestion"]]
    IN IF LacksKey(cs, {"country", "issue", "suggestion"}) THEN Raised("KeyError")
       ELSE Returned([verdict |-> Get(data, "verdict", JStr("SAFE")),
                      affected_countries |-> [i \in 1 .. Len(cs) |-> affected(cs[i])]])

_parse_languages(data) ==
    LET ls == Get(data, "languages", JList(<<>>)).l
        language(lang) == [id |-> lang.o["id"],
                           language |-> lang.o["language"],
                           language_code |-> lang.o["language_code"],
                           formality |-> Get(lang.o, "formality", None),
                           custom_style |-> Get(lang.o, "custom_style", None)]
    IN IF LacksKey(ls, {"id", "language", "language_code"}) THEN Raised("KeyError")
       ELSE Returned([i \in 1 .. Len(ls) |-> language(ls[i])])

_parse_tm_search(data) ==
    LET match(m) == [tm_id |-> Get(m.o, "tm_id", JStr("")),
                     score |-> Get(m.o, "score", JNum(0)),
                     match_type |-> Get(m.o, "match_type", JStr("")),
                     source_text |-> Get(m.o, "source_text", JStr("")),
                     target_text |-> Get(m.o, "target_text", JStr("")),
                     information_source |-> Get(m.o, "information_source", JStr("")),
                     source_name |-> Get(m.o, "source_name", None)]
        ms == Get(data, "matches", JList(<<>>)).l
    IN [i \in 1 .. Len(ms) |-> match(ms[i])]

\* a variant that falls back to the first page, not to the caller's page
_parse_tm_list_first_page(data, offset, limit) ==
    LET entry(e) == _parse_tm_entry(e.o)
        es == Get(data, "entries", JList(<<>>)).l
        entries == [i \in 1 .. Len(es) |-> entry(es[i])]
    IN [entries |-> entries,
        total |-> Get(data, "total", JNum(Len(entries))),
        offset |-> Get(data, "offset", JNum(0)),
        limit |-> Get(data, "limit", JNum(100))]

_parse_tm_list(data, offset, limit) ==
    LET entry(e) == _parse_tm_entry(e.o)
        es == Get(data, "entries", JList(<<>>)).l
        entries == [i \in 1 .. Len(es) |-> entry(es[i])]
    IN [entries |-> entries,
        total |-> Get(data, "total", JNum(Len(entries))),
        offset |-> Get(data, "offset", offset),
        limit |-> Get(data, "limit", limit)]

_parse_tm_stats(data) ==
    [total |-> Get(data, "total", JNum(0)),
     enabled |-> Get(data, "enabled", JNum(0)),
     disabled |-> Get(data, "disabled", JNum(0)),
     by_source |-> Get(data, "by_source", JObj(EmptyDict))]

_parse_brand_voice(data) ==
    [prompt |-> Get(data, "prompt", None),
     exists |-> Get(data, "exists", JBool(FALSE)),
     cached |-> Get(data, "cached", JBool(FALSE))]

\* Nativ.get_style_guides:
\* [_parse_style_guide(g) for g in data.get("guides", [])]
parse_style_guides(data) ==
    LET gs == Get(data, "guides", JList(<<>>)).l
    IN [i \in 1 .. Len(gs) |-> _parse_style_guide(gs[i].o)]

\* Nativ.extract_text: OCRResult(extracted_text=data.get("extracted_text", ""))
parse_ocr_result(data) ==
    [extracted_text |-> Get(data, "extracted_text", JStr(""))]

(***************************************************************************)
(* Response payloads: for each decoder a full payload, every payload that  *)
(* lacks some of its keys, and lists of up to MaxListLen elements.         *)
(***************************************************************************)
\* d with any subset of its keys removed
KeySubsets(d) == {Restrict(d, K) : K \in SUBSET DOMAIN d}

\* the lists of at most n elements of S
ListsUpTo(S, n) == UNION {[1 .. k -> S] : k \in 0 .. n}

\* the one-element lists holding e with any subset of its keys removed
Singletons(e) == {<<JObj(d)>> : d \in KeySubsets(e)}

FullDetail(id) ==
    [tm_id |-> JStr(id), score |-> JNum(85), match_type |-> JStr("fuzzy"),
     source_text |-> JStr("Hello world"), target_text |-> JStr("Bonjour le monde"),
     information_source |-> JStr("manual"), source_name |-> JStr("My TM")]

DetailSamples ==
    {JObj(FullDetail("abc-123")), JObj(FullDetail("def-456")), JObj(EmptyDict)}

TopMatchesLists ==
    ListsUpTo(DetailSamples, MaxListLen) \cup Singletons(FullDetail("abc-123"))

FullTmMatch(score, tops) ==
    [score |-> JNum(score), match_type |-> JStr("fuzzy"),
     source_text |-> JStr("Hello world"), target_text |-> JStr("Bonjour le monde"),
     tm_source |-> JStr("manual"), tm_source_name |-> JStr("My TM"),
     tm_id |-> JStr("abc-123"), top_matches |-> JList(tops)]

\* match scores (0-100): none, the smallest and a usual one
Scores == {0, 1, 85}

TwoDetails == <<JObj(FullDetail("abc-123")), JObj(FullDetail("def-456"))>>

TmMatchPayloads ==
    {None, JObj(EmptyDict)}
    \cup {JObj(d) : d \in UNION {KeySubsets(FullTmMatch(sc, TwoDetails)) : sc \in Scores}}
    \cup {JObj(FullTmMatch(85, tops)) : tops \in TopMatchesLists}

TmMatchSamples ==
    {None, JObj(EmptyDict), JObj(FullTmMatch(0, <<>>)),
     JObj(FullTmMatch(85, TwoDetails)), JObj([match_type |-> JStr("none")])}

FullTranslationMetadata == [word_count |-> JNum(2), cost |-> JNum(100)]

FullTranslation(tm, md) ==
    [translated_text |-> JStr("Bonjour le monde"), metadata |-> JObj(md),
     tm_match |-> tm, rationale |-> JStr("Chose formal register."),
     backtranslation |-> JStr("Hello world")]

TranslationPayloads ==
    UNION {KeySubsets(FullTranslation(tm, md)) :
              tm \in TmMatchSamples, md \in KeySubsets(FullTranslationMetadata)}
    \cup {FullTranslation(tm, FullTranslationMetadata) : tm \in TmMatchPayloads}

FullTMEntry(enabled, priority) ==
    [id |-> JStr("abc"), user_id |-> JNum(42), end_user_id |-> JStr("u1"),
     source_language_code |-> JStr("en"), source_text |-> JStr("Buy"),
     target_language_code |-> JStr("fr"), target_text |-> JStr("Acheter"),
     information_source |-> JStr("manual"), source_name |-> JStr("homepage hero"),
     enabled |-> JBool(enabled), priority |-> JNum(priority),
     created_at |-> JStr("2024-01-01T00:00:00"),
     updated_at |-> JStr("2024-01-02T00:00:00"), match_score |-> JNum(90)]

TMEntryPayloads ==
    KeySubsets(FullTMEntry(TRUE, 80))
    \cup {Restrict(FullTMEntry(FALSE, 0), K) :
             K \in SUBSET {"id", "enabled", "priority", "source_text"}}

TMEntrySamples ==
    {JObj(FullTMEntry(TRUE, 80)), JObj(FullTMEntry(FALSE, 0)), JObj(EmptyDict)}

FullTMList(entries) ==
    [entries |-> JList(entries), total |-> JNum(250),
     offset |-> JNum(100), limit |-> JNum(50)]

TMListPayloads ==
    UNION {KeySubsets(FullTMList(es)) : es \in ListsUpTo(TMEntrySamples, MaxListLen)}

FullSearchMatch ==
    [tm_id |-> JStr("abc-123"), score |-> JNum(85), match_type |-> JStr("fuzzy"),
     source_text |-> JStr("Hello world"), target_text |-> JStr("Bonjour le monde"),
     information_source |-> JStr("manual"), source_name |-> JStr("My TM")]

TMSearchPayloads ==
    {EmptyDict}
    \cup {[matches |-> JList(ms)] :
             ms \in ListsUpTo({JObj(FullSearchMatch), JObj(EmptyDict)}, MaxListLen)
                    \cup Singletons(FullSearchMatch)}

TMStatsPayloads ==
    KeySubsets([total |-> JNum(3), enabled |-> JNum(2), disabled |-> JNum(1),
                by_source |-> JObj([manual |-> JObj([total |-> JNum(3)])])])

StyleGuidePayloads ==
    UNION {KeySubsets([id |-> id, title |-> JStr("Tone"), content |-> JStr("Be formal."),
                       is_enabled |-> JBool(en), display_order |-> JNum(2),
                       user_id |-> JNum(1)]) :
              id \in {JNum(7), JNum(0), JStr("7"), JStr("sg-1")}, en \in BOOLEAN}

FullStyleGuide(id) ==
    [id |-> id, title |-> JStr("Tone"), content |-> JStr("Be formal."),
     is_enabled |-> JBool(TRUE), display_order |-> JNum(2), user_id |-> JNum(1)]

StyleGuideSamples ==
    {JObj(FullStyleGuide(JNum(7))), JObj(FullStyleGuide(JStr("sg-1"))),
     JObj(EmptyDict)}

StyleGuidesPayloads ==
    {EmptyDict}
    \cup {[guides |-> JList(gs)] : gs \in ListsUpTo(StyleGuideSamples, MaxListLen)}

BrandVoicePayloads ==
    UNION {KeySubsets([prompt |-> pr, exists |-> JBool(ex), cached |-> JBool(ca)]) :
              pr \in {None, JStr("We are a friendly brand.")},
              ex \in BOOLEAN, ca \in BOOLEAN}

FullLanguage(id) ==
    [id |-> JNum(id), language |-> JStr("French"), language_code |-> JStr("fr"),
     formality |-> JStr("formal"), custom_style |-> JStr("Be concise.")]

LanguagesPayloads ==
    {EmptyDict}
    \cup {[languages |-> JList(ls)] :
             ls \in ListsUpTo({JObj(FullLanguage(1)), JObj(FullLanguage(2))}, MaxListLen)
                    \cup Singletons(FullLanguage(1))}

ImageResultPayloads ==
    UNION {KeySubsets([images |-> JList(imgs), metadata |-> JObj(md)]) :
              imgs \in ListsUpTo({JObj([image_base64 |-> JStr("aGk=")]),
                                  JObj(EmptyDict)}, MaxListLen),
              md \in KeySubsets([cost |-> JNum(500), num_images |-> JNum(1)])}

FullAffectedCountry ==
    [country |-> JStr("JP"), issue |-> JStr("gesture"), suggestion |-> JStr("replace")]

InspectionPayloads ==
    UNION {KeySubsets([verdict |-> JStr("ATTENTION"), affected_countries |-> JList(cs)]) :
              cs \in ListsUpTo({JObj(FullAffectedCountry)}, MaxListLen)
                     \cup Singletons(FullAffectedCountry)}

OCRPayloads == KeySubsets([extracted_text |-> JStr("SALE")])

\* the offset and limit arguments of list_tm_entries
PageArgs == {<<JNum(0), JNum(100)>>, <<JNum(20), JNum(10)>>}

(***************************************************************************)
(* The operations of the clients.  An operation prepares one HTTP request  *)
(* (or raises before sending any), hands it to the HTTP client, and        *)
(* decodes the JSON data that _request returns.                            *)
(***************************************************************************)
\* the arguments of _request: method, path and the four keyword payloads
Req(method, path) ==
    [method |-> method, path |-> path, json |-> None, params |-> None,
     data |-> None, files |-> None]

\* the operation hands the request r to self._request
Send(r) == [kind |-> "send", request |-> r]

\* if cond: body[key] = value
SetIf(cond, body, key, value) == IF cond THEN SetItem(body, key, value) ELSE body

\* ",".join(l) on a list of str
RECURSIVE CommaJoin(_)
CommaJoin(l) ==
    IF l = <<>> THEN ""
    ELSE IF Len(l) = 1 THEN l[1].s
    ELSE l[1].s \o "," \o CommaJoin(Tail(l))

\* Path(p).name for the paths of the model
PathName(p) ==
    CASE p = "img/ad.png" -> "ad.png"
      [] p = "missing.jpg" -> "missing.jpg"
      [] p = "scan.nativraw" -> "scan.nativraw"
      [] p = "image.png" -> "image.png"
      [] p = "up/photo.jpg" -> "photo.jpg"

\* mimetypes.guess_type(name)[0] for the names of the model
guess_type(name) ==
    CASE name \in {"img/ad.png", "image.png"} -> JStr("image/png")
      [] name \in {"missing.jpg", "up/photo.jpg"} -> JStr("image/jpeg")
      [] OTHER -> None

\* guess_type(...)[0] or "application/octet-stream"
content_type(name) ==
    IF Truthy(guess_type(name)) THEN guess_type(name).s
    ELSE "application/octet-stream"

\* _prepare_file: the (name, bytes, content type) triple of a path, of raw
\* bytes or of a file object; reading a path that does not exist raises
_prepare_file(f) ==
    CASE f.kind = "path" ->
            IF ~f.exists THEN Raised("FileNotFoundError")
            ELSE Returned(<<PathName(f.path), f.content, content_type(f.path)>>)
      [] f.kind = "bytes" -> Returned(<<"image.png", f.content, "image/png">>)
      [] f.kind = "file" ->
            LET name == IF "name" \in DOMAIN f THEN f.name ELSE "image.png"
            IN Returned(<<PathName(name), f.content, content_type(name)>>)

\* Nativ.translate_batch: the arguments it passes to self.translate for the
\* text t; glossary and max_characters take translate's defaults
Nativ_translate_batch_args(a, t) ==
    [text |-> t,
     target_language |-> a.target_language,
     target_language_code |-> a.target_language_code,
     source_language |-> a.source_language,
     source_language_code |-> a.source_language_code,
     context |-> a.context,
     glossary |-> translate_defaults["glossary"],
     formality |-> a.formality,
     max_characters |-> translate_defaults["max_characters"],
     include_tm_info |-> JBool(TRUE),
     backtranslate |-> JBool(FALSE),
     include_rationale |-> JBool(FALSE)]

\* a file operation: the error of _prepare_file, or the request built from
\* the triple
WithFile(image, r) ==
    LET f == _prepare_file(image)
    IN IF f.kind = "raise" THEN f
       ELSE Send([r EXCEPT !.files = [file |-> f.value]])

\* class Nativ, up to the call of self._request: the request an operation
\* issues, or the exception it raises before issuing any
Nativ_prepare(op, a) ==
    CASE op = "translate" ->
            Send([Req("POST", "/text/culturalize") EXCEPT
                    !.json = JObj(_build_translate_body(a))])
      [] op = "extract_text" -> WithFile(a.image, Req("POST", "/text/extract"))
      [] op = "culturalize_image" ->
            WithFile(a.image,
                [Req("POST", "/image/culturalize") EXCEPT
                    !.data = JObj([text |-> a.text,
                                   language_code |-> a.language_code,
                                   output_format |-> a.output_format,
                                   model |-> a.model,
                                   num_images |-> JStr(Str(a.num_images)),
                                   tool |-> JStr("api")])])
      [] op = "inspect_image" ->
            LET form == SetIf(Truthy(a.countries), EmptyDict, "countries",
                              JStr(CommaJoin(a.countries.l)))
            IN WithFile(a.image,
                   [Req("POST", "/image/inspect") EXCEPT
                       !.data = IF Truthy(JObj(form)) THEN JObj(form) ELSE None])
      [] op = "get_languages" -> Send(Req("GET", "/user/languages"))
      [] op = "update_language_formality" ->
            Send([Req("PATCH", "/user/languages/" \o Str(a.mapping_id)
                               \o "/formality") EXCEPT
                    !.json = JObj(Dict1("formality", a.formality))])
      [] op = "update_language_custom_style" ->
            Send([Req("PATCH", "/user/languages/" \o Str(a.mapping_id)
                               \o "/custom-style") EXCEPT
                    !.json = JObj(Dict1("custom_style", a.custom_style))])
      [] op = "search_tm" ->
            LET p0 == [query |-> a.query,
                       source_lang |-> a.source_language_code,
                       score_cutoff |-> a.min_score,
                       limit |-> a.limit]
                p1 == SetIf(Truthy(a.target_language_code), p0, "target_lang",
                            a.target_language_code)
            IN Send([Req("GET", "/master-tm/fuzzy-search") EXCEPT
                        !.params = JObj(p1)])
      [] op = "list_tm_entries" ->
            LET p0 == [limit |-> a.limit, offset |-> a.offset]
                p1 == SetIf(Truthy(a.source_language_code), p0, "source_lang",
                            a.source_language_code)
                p2 == SetIf(Truthy(a.target_language_code), p1, "target_lang",
                            a.target_language_code)
                p3 == SetIf(Truthy(a.information_source), p2,
                            "information_source", a.information_source)
                p4 == SetIf(Truthy(a.search), p3, "search", a.search)
                p5 == SetIf(Truthy(a.enabled_only), p4, "enabled_only",
                            JBool(TRUE))
            IN Send([Req("GET", "/master-tm/entries") EXCEPT !.params = JObj(p5)])
      [] op = "add_tm_entry" ->
            LET b0 == [source_text |-> a.source_text,
                       target_text |-> a.target_text,
                       source_language_code |-> a.source_language_code,
                       target_language_code |-> a.target_language_code,
                       information_source |-> JStr("manual")]
                b1 == SetIf(Truthy(a.name), b0, "source_name", a.name)
            IN Send([Req("POST", "/master-tm/entries") EXCEPT !.json = JObj(b1)])
      [] op = "update_tm_entry" ->
            LET b1 == SetIf(a.target_text # None, EmptyDict, "target_text",
                            a.target_text)
                b2 == SetIf(a.enabled # None, b1, "enabled", a.enabled)
            IN IF ~Truthy(JObj(b2))
               THEN NativError("ValidationError",
                               "Provide at least one of target_text or enabled",
                               None, None)
               ELSE Send([Req("PATCH", "/master-tm/entries/" \o Str(a.entry_id))
                            EXCEPT !.json = JObj(b2)])
      [] op = "delete_tm_entry" ->
            Send(Req("DELETE", "/master-tm/entries/" \o Str(a.entry_id)))
      [] op = "get_tm_stats" -> Send(Req("GET", "/master-tm/stats"))
      [] op = "get_style_guides" -> Send(Req("GET", "/style-guide"))
      [] op = "create_style_guide" ->
            Send([Req("POST", "/style-guide") EXCEPT
                    !.json = JObj([title |-> a.title, content |-> a.content,
                                   is_enabled |-> a.is_enabled])])
      [] op = "update_style_guide" ->
            LET b1 == SetIf(a.title # None, EmptyDict, "title", a.title)
                b2 == SetIf(a.content # None, b1, "content", a.content)
                b3 == SetIf(a.is_enabled # None, b2, "is_enabled", a.is_enabled)
            IN Send([Req("PUT", "/style-guide/" \o Str(a.guide_id)) EXCEPT
                        !.json = JObj(b3)])
      [] op = "delete_style_guide" ->
            Send(Req("DELETE", "/style-guide/" \o Str(a.guide_id)))
      [] op = "get_brand_voice" -> Send(Req("GET", "/style-guide/prompt"))
      [] op = "get_combined_prompt" -> Send(Req("GET", "/style-guide/combined"))
      [] op = "submit_feedback" ->
            LET b1 == SetIf(a.source # None, EmptyDict, "source", a.source)
                b2 == SetIf(a.result # None, b1, "result", a.result)
                b3 == SetIf(a.language # None, b2, "language", a.language)
                b4 == SetIf(a.feedback # None, b3, "feedback", a.feedback)
                b5 == SetIf(a.approved # None, b4, "approved", a.approved)
            IN Send([Req("POST", "/text/feedback") EXCEPT !.json = JObj(b5)])

\* class Nativ, after self._request returned data: the value the operation
\* returns, or the exception its decoding raises; a .get on data that is
\* no dict raises AttributeError
Nativ_finish(op, a, data) ==
    IF op \in {"get_combined_prompt", "submit_feedback"} THEN Returned(data)
    ELSE IF data.t # "obj" THEN Raised("AttributeError")
    ELSE CASE op = "translate" -> Returned(_parse_translation(data.o))
           [] op = "extract_text" -> Returned(parse_ocr_result(data.o))
           [] op = "culturalize_image" -> _parse_image_result(data.o)
           [] op = "inspect_image" -> _parse_inspection(data.o)
           [] op = "get_languages" -> _parse_languages(data.o)
           [] op \in {"update_language_formality",
                      "update_language_custom_style", "update_tm_entry",
                      "delete_tm_entry", "delete_style_guide"} ->
                 Returned(Get(data.o, "success", JBool(FALSE)))
           [] op = "search_tm" -> Returned(_parse_tm_search(data.o))
           [] op = "list_tm_entries" ->
                 Returned(_parse_tm_list(data.o, a.offset, a.limit))
           [] op = "add_tm_entry" -> Returned(_parse_tm_entry(data.o))
           [] op = "get_tm_stats" -> Returned(_parse_tm_stats(data.o))
           [] op = "get_style_guides" -> Returned(parse_style_guides(data.o))
           [] op \in {"create_style_guide", "update_style_guide"} ->
                 Returned(_parse_style_guide(data.o))
           [] op = "get_brand_voice" -> Returned(_parse_brand_voice(data.o))

\* a variant of the async batch that leaves include_rationale at its default
AsyncNativ_translate_batch_args_rationale(a, t) ==
    [text |-> t,
     target_language |-> a.target_language,
     target_language_code |-> a.target_language_code,
     source_language |-> a.source_language,
     source_language_code |-> a.source_language_code,
     context |-> a.context,
     glossary |-> translate_defaults["glossary"],
     formality |-> a.formality,
     max_characters |-> translate_defaults["max_characters"],
     include_tm_info |-> JBool(TRUE),
     backtranslate |-> JBool(FALSE),
     include_rationale |-> translate_defaults["include_rationale"]]

\* AsyncNativ.translate_batch: the arguments it passes to self.translate for the
\* text t; glossary and max_characters take translate's defaults
AsyncNativ_translate_batch_args(a, t) ==
    [text |-> t,
     target_language |-> a.target_language,
     target_language_code |-> a.target_language_code,
     source_language |-> a.source_language,
     source_language_code |-> a.source_language_code,
     context |-> a.context,
     glossary |-> translate_defaults["glossary"],
     formality |-> a.formality,
     max_characters |-> translate_defaults["max_characters"],
     include_tm_info |-> JBool(TRUE),
     backtranslate |-> JBool(FALSE),
     include_rationale |-> JBool(FALSE)]

\* class AsyncNativ, up to the call of self._request: the request an operation
\* issues, or the exception it raises before issuing any
AsyncNativ_prepare(op, a) ==
    CASE op = "translate" ->
            Send([Req("POST", "/text/culturalize") EXCEPT
                    !.json = JObj(_build_translate_body(a))])
      [] op = "extract_text" -> WithFile(a.image, Req("POST", "/text/extract"))
      [] op = "culturalize_image" ->
            WithFile(a.image,
                [Req("POST", "/image/culturalize") EXCEPT
                    !.data = JObj([text |-> a.text,
                                   language_code |-> a.language_code,
                                   output_format |-> a.output_format,
                                   model |-> a.model,
                                   num_images |-> JStr(Str(a.num_images)),
                                   tool |-> JStr("api")])])
      [] op = "inspect_image" ->
            LET form == SetIf(Truthy(a.countries), EmptyDict, "countries",
                              JStr(CommaJoin(a.countries.l)))
            IN WithFile(a.image,
                   [Req("POST", "/image/inspect") EXCEPT
                       !.data = IF Truthy(JObj(form)) THEN JObj(form) ELSE None])
      [] op = "get_languages" -> Send(Req("GET", "/user/languages"))
      [] op = "update_language_formality" ->
            Send([Req("PATCH", "/user/languages/" \o Str(a.mapping_id)
                               \o "/formality") EXCEPT
                    !.json = JObj(Dict1("formality", a.formality))])
      [] op = "update_language_custom_style" ->
            Send([Req("PATCH", "/user/languages/" \o Str(a.mapping_id)
                               \o "/custom-style") EXCEPT
                    !.json = JObj(Dict1("custom_style", a.custom_style))])
      [] op = "search_tm" ->
            LET p0 == [query |-> a.query,
                       source_lang |-> a.source_language_code,
                       score_cutoff |-> a.min_score,
                       limit |-> a.limit]
                p1 == SetIf(Truthy(a.target_language_code), p0, "target_lang",
                            a.target_language_code)
            IN Send([Req("GET", "/master-tm/fuzzy-search") EXCEPT
                        !.params = JObj(p1)])
      [] op = "list_tm_entries" ->
            LET p0 == [limit |-> a.limit, offset |-> a.offset]
                p1 == SetIf(Truthy(a.source_language_code), p0, "source_lang",
                            a.source_language_code)
                p2 == SetIf(Truthy(a.target_language_code), p1, "target_lang",
                            a.target_language_code)
                p3 == SetIf(Truthy(a.information_source), p2,
                            "information_source", a.information_source)
                p4 == SetIf(Truthy(a.search), p3, "search", a.search)
                p5 == SetIf(Truthy(a.enabled_only), p4, "enabled_only",
                            JBool(TRUE))
            IN Send([Req("GET", "/master-tm/entries") EXCEPT !.params = JObj(p5)])
      [] op = "add_tm_entry" ->
            LET b0 == [source_text |-> a.source_text,
                       target_text |-> a.target_text,
                       source_language_code |-> a.source_language_code,
                       target_language_code |-> a.target_language_code,
                       information_source |-> JStr("manual")]
                b1 == SetIf(Truthy(a.name), b0, "source_name", a.name)
            IN Send([Req("POST", "/master-tm/entries") EXCEPT !.json = JObj(b1)])
      [] op = "update_tm_entry" ->
            LET b1 == SetIf(a.target_text # None, EmptyDict, "target_text",
                            a.target_text)
                b2 == SetIf(a.enabled # None, b1, "enabled", a.enabled)
            IN IF ~Truthy(JObj(b2))
               THEN NativError("ValidationError",
                               "Provide at least one of target_text or enabled",
                               None, None)
               ELSE Send([Req("PATCH", "/master-tm/entries/" \o Str(a.entry_id))
                            EXCEPT !.json = JObj(b2)])
      [] op = "delete_tm_entry" ->
            Send(Req("DELETE", "/master-tm/entries/" \o Str(a.entry_id)))
      [] op = "get_tm_stats" -> Send(Req("GET", "/master-tm/stats"))
      [] op = "get_style_guides" -> Send(Req("GET", "/style-guide"))
      [] op = "create_style_guide" ->
            Send([Req("POST", "/style-guide") EXCEPT
                    !.json = JObj([title |-> a.title, content |-> a.content,
                                   is_enabled |-> a.is_enabled])])
      [] op = "update_style_guide" ->
            LET b1 == SetIf(a.title # None, EmptyDict, "title", a.title)
                b2 == SetIf(a.content # None, b1, "content", a.content)
                b3 == SetIf(a.is_enabled # None, b2, "is_enabled", a.is_enabled)
            IN Send([Req("PUT", "/style-guide/" \o Str(a.guide_id)) EXCEPT
                        !.json = JObj(b3)])
      [] op = "delete_style_guide" ->
            Send(Req("DELETE", "/style-guide/" \o Str(a.guide_id)))
      [] op = "get_brand_voice" -> Send(Req("GET", "/style-guide/prompt"))
      [] op = "get_combined_prompt" -> Send(Req("GET", "/style-guide/combined"))
      [] op = "submit_feedback" ->
            LET b1 == SetIf(a.source # None, EmptyDict, "source", a.source)
                b2 == SetIf(a.result # None, b1, "result", a.result)
                b3 == SetIf(a.language # None, b2, "language", a.language)
                b4 == SetIf(a.feedback # None, b3, "feedback", a.feedback)
                b5 == SetIf(a.approved # None, b4, "approved", a.approved)
            IN Send([Req("POST", "/text/feedback") EXCEPT !.json = JObj(b5)])

\* class AsyncNativ, after await self._request returned data: the value the operation
\* returns, or the exception its decoding raises; a .get on data that is
\* no dict raises AttributeError
AsyncNativ_finish(op, a, data) ==
    IF op \in {"get_combined_prompt", "submit_feedback"} THEN Returned(data)
    ELSE IF data.t # "obj" THEN Raised("AttributeError")
    ELSE CASE op = "translate" -> Returned(_parse_translation(data.o))
           [] op = "extract_text" -> Returned(parse_ocr_result(data.o))
           [] op = "culturalize_image" -> _parse_image_result(data.o)
           [] op = "inspect_image" -> _parse_inspection(data.o)
           [] op = "get_languages" -> _parse_languages(data.o)
           [] op \in {"update_language_formality",
                      "update_language_custom_style", "update_tm_entry",
                      "delete_tm_entry", "delete_style_guide"} ->
                 Returned(Get(data.o, "success", JBool(FALSE)))
           [] op = "search_tm" -> Returned(_parse_tm_search(data.o))
           [] op = "list_tm_entries" ->
                 Returned(_parse_tm_list(data.o, a.offset, a.limit))
           [] op = "add_tm_entry" -> Returned(_parse_tm_entry(data.o))
           [] op = "get_tm_stats" -> Returned(_parse_tm_stats(data.o))
           [] op = "get_style_guides" -> Returned(parse_style_guides(data.o))
           [] op \in {"create_style_guide", "update_style_guide"} ->
                 Returned(_parse_style_guide(data.o))
           [] op = "get_brand_voice" -> Returned(_parse_brand_voice(data.o))

\* a variant whose update_tm_entry tests its arguments for truth
Prepare_truthy_update(c) ==
    IF /\ c.op = "update_tm_entry"
       /\ ~Truthy(c.args.target_text)
       /\ ~Truthy(c.args.enabled)
    THEN NativError("ValidationError",
                    "Provide at least one of target_text or enabled", None, None)
    ELSE IF c.client = "Nativ" THEN Nativ_prepare(c.op, c.args)
    ELSE AsyncNativ_prepare(c.op, c.args)

\* the operation of the client the call names
Prepare(c) ==
    IF c.client = "Nativ" THEN Nativ_prepare(c.op, c.args)
    ELSE AsyncNativ_prepare(c.op, c.args)

Finish(c, data) ==
    IF c.client = "Nativ" THEN Nativ_finish(c.op, c.args, data)
    ELSE AsyncNativ_finish(c.op, c.args, data)

\* the translate call translate_batch makes for its i-th text
SubCall(c, i) ==
    [client |-> c.client, op |-> "translate",
     args |-> IF c.client = "Nativ"
              THEN Nativ_translate_batch_args(c.args, c.args.texts[i])
              ELSE AsyncNativ_translate_batch_args(c.args, c.args.texts[i])]

\* what came back for a request: a response, or a failure of the transport
\* (no connection, a timeout)
GotResponse(resp) == [kind |-> "response", resp |-> resp]
TransportFailed == [kind |-> "error", exc |-> "httpx.TransportError"]

\* a variant that reports a failure of the transport as a ServerError
Completion_wrap(c, got) ==
    IF got.kind = "error"
    THEN NativError("ServerError", got.exc, None, None)
    ELSE LET data == _request(got.resp)
         IN IF data.kind = "raise" THEN data ELSE Finish(c, data.value)

\* a single operation c, from the return of self._client.request on: the
\* transport's exception propagates, _request checks the status and parses
\* the body, the operation decodes the data
Completion(c, got) ==
    IF got.kind = "error" THEN Raised(got.exc)
    ELSE LET data == _request(got.resp)
         IN IF data.kind = "raise" THEN data ELSE Finish(c, data.value)

(***************************************************************************)
(* Construction of a client: Nativ.__init__ and AsyncNativ.__init__        *)
(***************************************************************************)
Clients == {"Nativ", "AsyncNativ"}

DEFAULT_BASE_URL == "https://api.usenativ.com"

\* an object without attributes: no client has been constructed
NoAttributes == [k \in {} |-> None]

\* s.rstrip(ch) for a one-character ch
RECURSIVE rstrip(_, _)
rstrip(s, ch) ==
    IF Len(s) > 0 /\ SubSeq(s, Len(s), Len(s)) = ch
    THEN rstrip(SubSeq(s, 1, Len(s) - 1), ch)
    ELSE s

\* os.environ.get(name)
environ_get(environ, name) == Get(environ, name, None)

\* a or b
Or(a, b) == IF Truthy(a) THEN a ELSE b

\* a variant that takes the argument whenever it is not None
_resolve_api_key_not_none(api_key, environ) ==
    LET key == IF api_key # None THEN api_key
               ELSE environ_get(environ, "NATIV_API_KEY")
    IN IF ~Truthy(key)
       THEN NativError("AuthenticationError",
                "No API key provided. Pass api_key= or set the NATIV_API_KEY "
                \o "environment variable. Create one at "
                \o "https://dashboard.usenativ.com -> Settings -> API Keys",
                None, None)
       ELSE Returned(key)

_resolve_api_key(api_key, environ) ==
    LET key == Or(api_key, environ_get(environ, "NATIV_API_KEY"))
    IN IF ~Truthy(key)
       THEN NativError("AuthenticationError",
                "No API key provided. Pass api_key= or set the NATIV_API_KEY "
                \o "environment variable. Create one at "
                \o "https://dashboard.usenativ.com -> Settings -> API Keys",
                None, None)
       ELSE Returned(key)

\* a variant that strips one trailing slash only
resolve_base_url_strip_one(base_url, environ) ==
    LET url == Or(base_url, Or(environ_get(environ, "NATIV_API_URL"),
                               JStr(DEFAULT_BASE_URL))).s
    IN IF Len(url) > 0 /\ SubSeq(url, Len(url), Len(url)) = "/"
       THEN JStr(SubSeq(url, 1, Len(url) - 1))
       ELSE JStr(url)

\* (base_url or os.environ.get("NATIV_API_URL") or DEFAULT_BASE_URL).rstrip("/")
resolve_base_url(base_url, environ) ==
    JStr(rstrip(Or(base_url, Or(environ_get(environ, "NATIV_API_URL"),
                                JStr(DEFAULT_BASE_URL))).s, "/"))

\* the X-API-Key header of _default_headers
_default_headers(api_key) == Dict1("X-API-Key", api_key)

\* Nativ.__init__: the outcome and the attributes the object ends with; a
\* failure of _resolve_api_key leaves it before any attribute is assigned.
\* The HTTP client counts the calls of its close() / aclose().
Nativ_init(a, environ) ==
    LET key == _resolve_api_key(a.api_key, environ)
        url == resolve_base_url(a.base_url, environ)
    IN IF key.kind = "raise" THEN [outcome |-> key, self |-> NoAttributes]
       ELSE [outcome |-> Returned(None),
             self |-> [_api_key |-> key.value,
                       _base_url |-> url,
                       _client |-> [class |-> "httpx.Client",
                                    closes |-> 0,
                                    base_url |-> url,
                                    headers |-> _default_headers(key.value),
                                    timeout |-> a.timeout]]]

\* AsyncNativ.__init__
AsyncNativ_init(a, environ) ==
    LET key == _resolve_api_key(a.api_key, environ)
        url == resolve_base_url(a.base_url, environ)
    IN IF key.kind = "raise" THEN [outcome |-> key, self |-> NoAttributes]
       ELSE [outcome |-> Returned(None),
             self |-> [_api_key |-> key.value,
                       _base_url |-> url,
                       _client |-> [class |-> "httpx.AsyncClient",
                                    closes |-> 0,
                                    base_url |-> url,
                                    headers |-> _default_headers(key.value),
                                    timeout |-> a.timeout]]]

\* the api_key argument and the NATIV_API_KEY variable: absent, empty, a key
ApiKeyArgs == {None, JStr(""), JStr("nativ_foo")}
EnvApiKeys == {None, JStr(""), JStr("nativ_from_env")}

\* the base_url argument and the NATIV_API_URL variable: absent, empty,
\* without and with trailing slashes
BaseUrlArgs ==
    {None, JStr(""), JStr("https://custom.api.com"),
     JStr("https://custom.api.com/"), JStr("https://custom.api.com/v1//"),
     JStr("/")}
EnvBaseUrls == {None, JStr(""), JStr("https://env.api.com"), JStr("https://env.api.com/")}

\* os.environ with the two variables set to k and u, None meaning unset
Environ(k, u) ==
    SetIf(u # None, SetIf(k # None, EmptyDict, "NATIV_API_KEY", k),
          "NATIV_API_URL", u)

ConstructCalls ==
    {[op |-> "__init__", client |-> c,
      args |-> [api_key |-> k, base_url |-> u, timeout |-> JNum(120)],
      environ |-> Environ(ek, eu)] :
        c \in Clients, k \in ApiKeyArgs, u \in BaseUrlArgs,
        ek \in EnvApiKeys, eu \in EnvBaseUrls}

\* the client the operations of the model are called on
ConstructedClient(c) ==
    IF c = "Nativ"
    THEN Nativ_init([api_key |-> JStr("nativ_foo"), base_url |-> None,
                     timeout |-> JNum(120)], EmptyDict).self
    ELSE AsyncNativ_init([api_key |-> JStr("nativ_foo"), base_url |-> None,
                          timeout |-> JNum(120)], EmptyDict).self

(***************************************************************************)
(* The calls made on a client.                                             *)
(***************************************************************************)
\* the longest texts argument of translate_batch
MaxBatch == 2

\* a path that exists, one that does not, one of unknown type, raw bytes,
\* a file object with a name and one without
FileInputs ==
    {[kind |-> "path", path |-> "img/ad.png", exists |-> TRUE, content |-> "PNG-1"],
     [kind |-> "path", path |-> "missing.jpg", exists |-> FALSE],
     [kind |-> "path", path |-> "scan.nativraw", exists |-> TRUE, content |-> "RAW-2"],
     [kind |-> "bytes", content |-> "PNG-3"],
     [kind |-> "file", name |-> "up/photo.jpg", content |-> "JPG-4"],
     [kind |-> "file", content |-> "PNG-5"]}

NoArgs == [none \in {} |-> None]

OptBool == {None, JBool(TRUE), JBool(FALSE)}

ClientTranslateArgs ==
    {a \in TranslateArgs :
        /\ a.text = JStr("hello")
        /\ a.source_language = JStr("English")
        /\ a.glossary = None
        /\ a.formality \in {None, JStr("formal")}
        /\ a.context = None
        /\ a.max_characters \in {None, JNum(50)}
        /\ a.include_tm_info = JBool(TRUE)
        /\ a.backtranslate = JBool(FALSE)}

BatchTexts == ListsUpTo({JStr("hello"), JStr("bye")}, MaxBatch)

BatchArgs ==
    {[texts |-> ts,
      target_language |-> JStr("French"),
      target_language_code |-> tlc,
      source_language |-> JStr("English"),
      source_language_code |-> JStr("en"),
      context |-> ctx,
      formality |-> None] :
        ts \in BatchTexts, tlc \in {None, JStr("fr")},
        ctx \in {None, JStr("button")}}

\* the operations of a client with the arguments the model calls them with
Operations ==
    {<<"translate", a>> : a \in ClientTranslateArgs}
    \cup {<<"translate_batch", a>> : a \in BatchArgs}
    \cup {<<"extract_text", [image |-> f]>> : f \in FileInputs}
    \cup {<<"culturalize_image",
            [image |-> f, text |-> JStr("Sale"), language_code |-> JStr("fr"),
             output_format |-> JStr("png"), model |-> JStr("gpt"),
             num_images |-> JNum(n)]>> : f \in FileInputs, n \in {1, 3}}
    \cup {<<"inspect_image", [image |-> f, countries |-> cs]>> :
            f \in FileInputs,
            cs \in {None, JList(<<>>), JList(<<JStr("FR")>>),
                    JList(<<JStr("FR"), JStr("DE")>>)}}
    \cup {<<"get_languages", NoArgs>>, <<"get_tm_stats", NoArgs>>,
          <<"get_style_guides", NoArgs>>, <<"get_brand_voice", NoArgs>>,
          <<"get_combined_prompt", NoArgs>>}
    \cup {<<"update_language_formality",
            [mapping_id |-> JNum(3), formality |-> JStr("formal")]>>}
    \cup {<<"update_language_custom_style",
            [mapping_id |-> JNum(3), custom_style |-> cs]>> :
            cs \in OptStr("Use vous")}
    \cup {<<"search_tm",
            [query |-> JStr("hello"), source_language_code |-> JStr("en"),
             target_language_code |-> tlc, min_score |-> JNum(0),
             limit |-> JNum(10)]>> : tlc \in OptStr("fr")}
    \cup {<<"list_tm_entries",
            [source_language_code |-> sl, target_language_code |-> tl,
             information_source |-> src, search |-> q,
             enabled_only |-> JBool(eo), limit |-> pg[2], offset |-> pg[1]]>> :
            sl \in OptStr("en"), tl \in {None, JStr("fr")},
            src \in {None, JStr("manual")}, q \in {None, JStr("hi")},
            eo \in BOOLEAN, pg \in PageArgs}
    \cup {<<"add_tm_entry",
            [source_text |-> JStr("Hello"), target_text |-> JStr("Bonjour"),
             source_language_code |-> JStr("en"),
             target_language_code |-> JStr("fr-FR"), name |-> n]>> :
            n \in OptStr("hero")}
    \cup {<<"update_tm_entry",
            [entry_id |-> JStr("e1"), target_text |-> tt, enabled |-> en]>> :
            tt \in OptStr("Salut"), en \in OptBool}
    \cup {<<"delete_tm_entry", [entry_id |-> JStr("e1")]>>}
    \cup {<<"create_style_guide",
            [title |-> JStr("Tone"), content |-> JStr("Be formal."),
             is_enabled |-> JBool(en)]>> : en \in BOOLEAN}
    \cup {<<"update_style_guide",
            [guide_id |-> JStr("7"), title |-> t, content |-> c,
             is_enabled |-> en]>> :
            t \in OptStr("Tone"), c \in {None, JStr("Be formal.")},
            en \in OptBool}
    \cup {<<"delete_style_guide", [guide_id |-> JStr("7")]>>}
    \cup {<<"submit_feedback",
            [source |-> s, result |-> r, language |-> l, feedback |-> f,
             approved |-> ap]>> :
            s \in {None, JStr("Hello")}, r \in {None, JStr("Bonjour")},
            l \in {None, JStr("French")}, f \in {None, JStr("")},
            ap \in OptBool}

ClientCalls ==
    {[client |-> c, op |-> o[1], args |-> o[2]] : c \in Clients, o \in Operations}

\* the responses a server gives to a client call
ClientResponses ==
    {r \in Responses :
        /\ r.status_code \in {200, 302, 404, 422, 500}
        /\ r.text \in {"{}", "{\"translated_text\": \"Bonjour\"}",
                       "{\"id\": 7, \"title\": \"Tone\"}", "{\"success\": true}",
                       "{\"detail\": \"test error\"}", "[]",
                       "Internal Server Error", "", EchoedEntry,
                       EchoedNamedEntry}}

(***************************************************************************)
(* A client as a scoped resource: close, __enter__ / __exit__ and their    *)
(* async counterparts.                                                     *)
(***************************************************************************)
\* Nativ.close: self._client.close()
Nativ_close(obj) == [obj EXCEPT !["_client"].closes = @ + 1]

\* AsyncNativ.close: await self._client.aclose()
AsyncNativ_close(obj) == [obj EXCEPT !["_client"].closes = @ + 1]

\* a variant of __exit__ that closes only when the block ended normally
Nativ_exit_on_success(obj, body) ==
    [self |-> IF body.kind = "raise" THEN obj ELSE Nativ_close(obj),
     outcome |-> body]

\* Nativ.__exit__(*args): self.close(); it returns None, so an exception of
\* the block is not suppressed and the with statement ends as its body did
Nativ_exit(obj, body) == [self |-> Nativ_close(obj), outcome |-> body]

\* AsyncNativ.__aexit__(*args): await self.close(); it returns None
AsyncNativ_exit(obj, body) == [self |-> AsyncNativ_close(obj), outcome |-> body]

\* the operations called inside the blocks of the model
ScopeOperations ==
    {o \in Operations :
        \/ o[1] \in {"get_languages", "delete_tm_entry", "get_brand_voice"}
        \/ o[1] = "update_tm_entry" /\ o[2].target_text = None
        \/ o[1] = "extract_text" /\ o[2].image.kind = "path"}

\* the body of a with block: nothing, a raise, or one call on the client
ScopeBodies ==
    {[kind |-> "pass"], [kind |-> "raise", exc |-> "ValueError"]}
    \cup {[kind |-> "call", op |-> o[1], args |-> o[2]] : o \in ScopeOperations}

\* with Nativ(...) as client: body  /  async with AsyncNativ(...) as client: body
ScopeCalls ==
    {[op |-> "with", client |-> c, body |-> b] : c \in Clients, b \in ScopeBodies}

\* the call the body of the block makes on the client
BodyCall(c) == [client |-> c.client, op |-> c.body.op, args |-> c.body.args]

(***************************************************************************)
(* The state machine.  A behaviour is one call: Init draws the operation   *)
(* and its arguments, and the operation's action computes the outcome.     *)
(***************************************************************************)
Pending == [kind |-> "pending"]

\* nothing sent, nothing received, nothing collected
NoTraffic == sent = <<>> /\ received = <<>> /\ results = <<>>

\* a call whose position is told by outcome alone, and that prints nothing
SingleStep == pc = "call" /\ stderr = <<>>

StatusCalls ==
    {[op |-> op, resp |-> resp] :
        op \in {"_raise_for_status", "_request"}, resp \in Responses}

InitStatus ==
    /\ call \in StatusCalls
    /\ outcome = Pending
    /\ NoTraffic
    /\ SingleStep
    /\ self = NoAttributes

\* _raise_for_status(resp) on a response
RaiseForStatus ==
    /\ call.op = "_raise_for_status"
    /\ outcome = Pending
    /\ outcome' = _raise_for_status(call.resp)
    /\ UNCHANGED <<call, sent, received, results, self, pc, stderr>>

\* one client request that received the response resp
Request ==
    /\ call.op = "_request"
    /\ outcome = Pending
    /\ outcome' = _request(call.resp)
    /\ UNCHANGED <<call, sent, received, results, self, pc, stderr>>

NextStatus == RaiseForStatus \/ Request

SpecStatus == InitStatus /\ [][NextStatus]_vars

\* a call passes the keywords in `supplied`; Nativ.translate passes them all
EncodeCalls ==
    {[op |-> "_build_translate_body", supplied |-> TranslateKeywords, args |-> a] :
        a \in TranslateArgs}
    \cup {[op |-> "_build_translate_body", supplied |-> S, args |-> a] :
             S \in SUBSET TranslateKeywords, a \in NonDefaultArgs}

InitEncode ==
    /\ call \in EncodeCalls
    /\ outcome = Pending
    /\ NoTraffic
    /\ SingleStep
    /\ self = NoAttributes

\* _build_translate_body(text, target_language, **options)
BuildTranslateBody ==
    /\ call.op = "_build_translate_body"
    /\ outcome = Pending
    /\ outcome' = Returned(_build_translate_body(
                        bind_translate_args(call.supplied, call.args)))
    /\ UNCHANGED <<call, sent, received, results, self, pc, stderr>>

NextEncode == BuildTranslateBody

SpecEncode == InitEncode /\ [][NextEncode]_vars

DecodeCalls ==
    {[op |-> "_parse_translation", data |-> d] : d \in TranslationPayloads}
    \cup {[op |-> "_parse_tm_entry", data |-> d] : d \in TMEntryPayloads}
    \cup {[op |-> "_parse_style_guide", data |-> d] : d \in StyleGuidePayloads}
    \cup {[op |-> "_parse_image_result", data |-> d] : d \in ImageResultPayloads}
    \cup {[op |-> "_parse_inspection", data |-> d] : d \in InspectionPayloads}
    \cup {[op |-> "_parse_languages", data |-> d] : d \in LanguagesPayloads}
    \cup {[op |-> "_parse_tm_search", data |-> d] : d \in TMSearchPayloads}
    \cup {[op |-> "_parse_tm_list", data |-> d, offset |-> pg[1], limit |-> pg[2]] :
             d \in TMListPayloads, pg \in PageArgs}
    \cup {[op |-> "_parse_tm_stats", data |-> d] : d \in TMStatsPayloads}
    \cup {[op |-> "_parse_brand_voice", data |-> d] : d \in BrandVoicePayloads}
    \cup {[op |-> "parse_ocr_result", data |-> d] : d \in OCRPayloads}
    \cup {[op |-> "parse_style_guides", data |-> d] : d \in StyleGuidesPayloads}

InitDecode ==
    /\ call \in DecodeCalls
    /\ outcome = Pending
    /\ NoTraffic
    /\ SingleStep
    /\ self = NoAttributes

ParseTranslation ==
    /\ call.op = "_parse_translation"
    /\ outcome = Pending
    /\ outcome' = Returned(_parse_translation(call.data))
    /\ UNCHANGED <<call, sent, received, results, self, pc, stderr>>

ParseTMEntry ==
    /\ call.op = "_parse_tm_entry"
    /\ outcome = Pending
    /\ outcome' = Returned(_parse_tm_entry(call.data))
    /\ UNCHANGED <<call, sent, received, results, self, pc, stderr>>

ParseStyleGuide ==
    /\ call.op = "_parse_style_guide"
    /\ outcome = Pending
    /\ outcome' = Returned(_parse_style_guide(call.data))
    /\ UNCHANGED <<call, sent, received, results, self, pc, stderr>>

ParseImageResult ==
    /\ call.op = "_parse_image_result"
    /\ outcome = Pending
    /\ outcome' = _parse_image_result(call.data)
    /\ UNCHANGED <<call, sent, received, results, self, pc, stderr>>

ParseInspection ==
    /\ call.op = "_parse_inspection"
    /\ outcome = Pending
    /\ outcome' = _parse_inspection(call.data)
    /\ UNCHANGED <<call, sent, received, results, self, pc, stderr>>

ParseLanguages ==
    /\ call.op = "_parse_languages"
    /\ outcome = Pending
    /\ outcome' = _parse_languages(call.data)
    /\ UNCHANGED <<call, sent, received, results, self, pc, stderr>>

ParseTMSearch ==
    /\ call.op = "_parse_tm_search"
    /\ outcome = Pending
    /\ outcome' = Returned(_parse_tm_search(call.data))
    /\ UNCHANGED <<call, sent, received, results, self, pc, stderr>>

ParseTMList ==
    /\ call.op = "_parse_tm_list"
    /\ outcome = Pending
    /\ outcome' = Returned(_parse_tm_list(call.data, call.offset, call.limit))
    /\ UNCHANGED <<call, sent, received, results, self, pc, stderr>>

ParseTMStats ==
    /\ call.op = "_parse_tm_stats"
    /\ outcome = Pending
    /\ outcome' = Returned(_parse_tm_stats(call.data))
    /\ UNCHANGED <<call, sent, received, results, self, pc, stderr>>

ParseBrandVoice ==
    /\ call.op = "_parse_brand_voice"
    /\ outcome = Pending
    /\ outcome' = Returned(_parse_brand_voice(call.data))
    /\ UNCHANGED <<call, sent, received, results, self, pc, stderr>>

\* the decoding step of Nativ.extract_text
ParseOCRResult ==
    /\ call.op = "parse_ocr_result"
    /\ outcome = Pending
    /\ outcome' = Returned(parse_ocr_result(call.data))
    /\ UNCHANGED <<call, sent, received, results, self, pc, stderr>>

\* the decoding step of Nativ.get_style_guides
ParseStyleGuides ==
    /\ call.op = "parse_style_guides"
    /\ outcome = Pending
    /\ outcome' = Returned(parse_style_guides(call.data))
    /\ UNCHANGED <<call, sent, received, results, self, pc, stderr>>

NextDecode ==
    \/ ParseTranslation
    \/ ParseTMEntry
    \/ ParseStyleGuide
    \/ ParseImageResult
    \/ ParseInspection
    \/ ParseLanguages
    \/ ParseTMSearch
    \/ ParseTMList
    \/ ParseTMStats
    \/ ParseBrandVoice
    \/ ParseOCRResult
    \/ ParseStyleGuides

SpecDecode == InitDecode /\ [][NextDecode]_vars

(***************************************************************************)
(* The clients.  A behaviour is one call on a Nativ or an AsyncNativ: its  *)
(* requests go out one by one and the server, or the transport, decides    *)
(* what comes back for each.                                               *)
(***************************************************************************)
InitClient ==
    /\ call \in ClientCalls
    /\ outcome = Pending
    /\ NoTraffic
    /\ SingleStep
    /\ self = ConstructedClient(call.client)

\* a request is in flight: sent, and nothing has come back for it yet
InFlight == Len(sent) > Len(received)

\* a variant that sends the request once more after a failed attempt
Invoke_retry ==
    /\ call \in ClientCalls
    /\ call.op # "translate_batch"
    /\ \/ outcome = Pending /\ sent = <<>>
       \/ outcome.kind = "raise" /\ Len(sent) = 1 /\ Len(received) = 1
    /\ LET p == Prepare(call)
       IN IF p.kind = "send"
          THEN sent' = Append(sent, p.request) /\ outcome' = Pending
          ELSE outcome' = p /\ UNCHANGED sent
    /\ UNCHANGED <<call, received, results, self, pc, stderr>>

\* a single operation starts: it raises before sending, or it issues its
\* request through self._request
Invoke ==
    /\ call \in ClientCalls
    /\ call.op # "translate_batch"
    /\ outcome = Pending
    /\ sent = <<>>
    /\ LET p == Prepare(call)
       IN IF p.kind = "send"
          THEN sent' = Append(sent, p.request) /\ UNCHANGED outcome
          ELSE outcome' = p /\ UNCHANGED sent
    /\ UNCHANGED <<call, received, results, self, pc, stderr>>

\* translate_batch reaches its next text and self.translate issues the
\* request for it
BatchSend ==
    /\ call \in ClientCalls
    /\ call.op = "translate_batch"
    /\ outcome = Pending
    /\ ~InFlight
    /\ Len(results) < Len(call.args.texts)
    /\ sent' = Append(sent, Prepare(SubCall(call, Len(results) + 1)).request)
    /\ UNCHANGED <<call, outcome, received, results, self, pc, stderr>>

\* the comprehension of translate_batch is exhausted: the list is returned
BatchReturn ==
    /\ call \in ClientCalls
    /\ call.op = "translate_batch"
    /\ outcome = Pending
    /\ ~InFlight
    /\ Len(results) = Len(call.args.texts)
    /\ outcome' = Returned(results)
    /\ UNCHANGED <<call, sent, received, results, self, pc, stderr>>

\* a variant of translate_batch that puts each new Translation first
AfterReceive_prepend(got) ==
    IF call.op = "translate_batch"
    THEN LET done == Completion(SubCall(call, Len(results) + 1), got)
         IN IF done.kind = "return"
            THEN [outcome |-> outcome, results |-> <<done.value>> \o results]
            ELSE [outcome |-> done, results |-> results]
    ELSE [outcome |-> Completion(call, got), results |-> results]

\* a variant of translate_batch that answers a failed sub-call with the
\* Translations collected before it
AfterReceive_partial(got) ==
    IF call.op = "translate_batch"
    THEN LET done == Completion(SubCall(call, Len(results) + 1), got)
         IN IF done.kind = "return"
            THEN [outcome |-> outcome, results |-> Append(results, done.value)]
            ELSE [outcome |-> Returned(results), results |-> results]
    ELSE [outcome |-> Completion(call, got), results |-> results]

\* self._client.request came back with got: a single operation completes;
\* translate_batch collects the Translation or lets the exception out
AfterReceive(got) ==
    IF call.op = "translate_batch"
    THEN LET done == Completion(SubCall(call, Len(results) + 1), got)
         IN IF done.kind = "return"
            THEN [outcome |-> outcome, results |-> Append(results, done.value)]
            ELSE [outcome |-> done, results |-> results]
    ELSE [outcome |-> Completion(call, got), results |-> results]

\* the server answers the request in flight
Respond ==
    /\ call \in ClientCalls
    /\ outcome = Pending
    /\ InFlight
    /\ \E resp \in ClientResponses :
          /\ received' = Append(received, GotResponse(resp))
          /\ outcome' = AfterReceive(GotResponse(resp)).outcome
          /\ results' = AfterReceive(GotResponse(resp)).results
    /\ UNCHANGED <<call, sent, self, pc, stderr>>

\* the transport fails on the request in flight: self._client.request raises
TransportFailure ==
    /\ call \in ClientCalls
    /\ outcome = Pending
    /\ InFlight
    /\ received' = Append(received, TransportFailed)
    /\ outcome' = AfterReceive(TransportFailed).outcome
    /\ results' = AfterReceive(TransportFailed).results
    /\ UNCHANGED <<call, sent, self, pc, stderr>>

NextClient == Invoke \/ BatchSend \/ BatchReturn \/ Respond \/ TransportFailure

SpecClient == InitClient /\ [][NextClient]_vars

(***************************************************************************)
(* Construction.  A behaviour is one constructor call in an environment.   *)
(***************************************************************************)
InitConstruct ==
    /\ call \in ConstructCalls
    /\ outcome = Pending
    /\ NoTraffic
    /\ SingleStep
    /\ self = NoAttributes

\* Nativ(api_key, base_url=..., timeout=...)
NativInit ==
    /\ call.op = "__init__"
    /\ call.client = "Nativ"
    /\ outcome = Pending
    /\ outcome' = Nativ_init(call.args, call.environ).outcome
    /\ self' = Nativ_init(call.args, call.environ).self
    /\ UNCHANGED <<call, sent, received, results, pc, stderr>>

\* AsyncNativ(api_key, base_url=..., timeout=...)
AsyncNativInit ==
    /\ call.op = "__init__"
    /\ call.client = "AsyncNativ"
    /\ outcome = Pending
    /\ outcome' = AsyncNativ_init(call.args, call.environ).outcome
    /\ self' = AsyncNativ_init(call.args, call.environ).self
    /\ UNCHANGED <<call, sent, received, results, pc, stderr>>

NextConstruct == NativInit \/ AsyncNativInit

SpecConstruct == InitConstruct /\ [][NextConstruct]_vars

(***************************************************************************)
(* Scoped use.  A behaviour is one with statement on a constructed client: *)
(* pc runs through "enter", "body", "awaiting" (a request of the body is   *)
(* in flight), "exit" (the body has ended, outcome is how) and "left".     *)
(***************************************************************************)
InitScope ==
    /\ call \in ScopeCalls
    /\ outcome = Pending
    /\ NoTraffic
    /\ self = ConstructedClient(call.client)
    /\ pc = "enter"
    /\ stderr = <<>>

\* __enter__ / __aenter__: return self
ScopeEnter ==
    /\ call \in ScopeCalls
    /\ pc = "enter"
    /\ pc' = "body"
    /\ UNCHANGED <<call, outcome, sent, received, results, self, stderr>>

\* the body runs until it ends or until its call awaits the response
ScopeBody ==
    /\ call \in ScopeCalls
    /\ pc = "body"
    /\ CASE call.body.kind = "pass" ->
                outcome' = Returned(None) /\ pc' = "exit" /\ UNCHANGED sent
         [] call.body.kind = "raise" ->
                outcome' = Raised(call.body.exc) /\ pc' = "exit" /\ UNCHANGED sent
         [] call.body.kind = "call" ->
                LET p == Prepare(BodyCall(call))
                IN IF p.kind = "send"
                   THEN /\ sent' = Append(sent, p.request)
                        /\ pc' = "awaiting"
                        /\ UNCHANGED outcome
                   ELSE outcome' = p /\ pc' = "exit" /\ UNCHANGED sent
    /\ UNCHANGED <<call, received, results, self, stderr>>

\* the server answers the request of the body
ScopeRespond ==
    /\ call \in ScopeCalls
    /\ pc = "awaiting"
    /\ \E resp \in ClientResponses :
          /\ received' = Append(received, GotResponse(resp))
          /\ outcome' = Completion(BodyCall(call), GotResponse(resp))
    /\ pc' = "exit"
    /\ UNCHANGED <<call, sent, results, self, stderr>>

\* the transport fails on the request of the body
ScopeTransportFailure ==
    /\ call \in ScopeCalls
    /\ pc = "awaiting"
    /\ received' = Append(received, TransportFailed)
    /\ outcome' = Completion(BodyCall(call), TransportFailed)
    /\ pc' = "exit"
    /\ UNCHANGED <<call, sent, results, self, stderr>>

\* the block is left through Nativ.__exit__
ScopeExit ==
    /\ call \in ScopeCalls
    /\ call.client = "Nativ"
    /\ pc = "exit"
    /\ self' = Nativ_exit(self, outcome).self
    /\ outcome' = Nativ_exit(self, outcome).outcome
    /\ pc' = "left"
    /\ UNCHANGED <<call, sent, received, results, stderr>>

\* the block is left through AsyncNativ.__aexit__
ScopeAsyncExit ==
    /\ call \in ScopeCalls
    /\ call.client = "AsyncNativ"
    /\ pc = "exit"
    /\ self' = AsyncNativ_exit(self, outcome).self
    /\ outcome' = AsyncNativ_exit(self, outcome).outcome
    /\ pc' = "left"
    /\ UNCHANGED <<call, sent, received, results, stderr>>

NextScope ==
    \/ ScopeEnter
    \/ ScopeBody
    \/ ScopeRespond
    \/ ScopeTransportFailure
    \/ ScopeExit
    \/ ScopeAsyncExit

SpecScope == InitScope /\ [][NextScope]_vars

(***************************************************************************)
(* The command line of _cli.py.  What a command prints to sys.stdout is    *)
(* not part of the model; sys.stderr is, one element per print call.       *)
(***************************************************************************)
IsSpace(ch) == ch \in {" ", "\n", "\t"}

\* str.strip() of the text read from stdin
RECURSIVE strip(_)
strip(s) ==
    IF s = "" THEN s
    ELSE IF IsSpace(SubSeq(s, 1, 1)) THEN strip(SubSeq(s, 2, Len(s)))
    ELSE IF IsSpace(SubSeq(s, Len(s), Len(s))) THEN strip(SubSeq(s, 1, Len(s) - 1))
    ELSE s

\* str.split(sep) for a separator of one character
RECURSIVE split(_, _)
split(s, sep) ==
    LET at == {i \in 1 .. Len(s) : SubSeq(s, i, i) = sep}
    IN IF at = {} THEN <<s>>
       ELSE LET i == CHOOSE i \in at : \A j \in at : i <= j
            IN <<SubSeq(s, 1, i - 1)>> \o split(SubSeq(s, i + 1, Len(s)), sep)

\* str.splitlines() of a text whose line breaks are "\n"
splitlines(s) ==
    IF s = "" THEN <<>>
    ELSE LET parts == split(s, "\n")
         IN IF parts[Len(parts)] = "" THEN SubSeq(parts, 1, Len(parts) - 1)
            ELSE parts

\* _read_stdin_texts: the stripped text of a piped stdin in a one-element
\* list, None when stdin is a terminal or holds nothing but white space
_read_stdin_texts(stdin) ==
    IF ~stdin.isatty /\ strip(stdin.data) # ""
    THEN JList(<<JStr(strip(stdin.data))>>)
    ELSE None

\* cmd_translate up to _get_client(): the text, or the refusal
cmd_translate_input(a, stdin) ==
    IF a.text = None \/ a.text = JStr("-")
    THEN IF ~Truthy(_read_stdin_texts(stdin))
         THEN [kind |-> "reject",
               line |-> "Error: provide text as argument or pipe via stdin"]
         ELSE [kind |-> "ok", value |-> _read_stdin_texts(stdin).l[1]]
    ELSE [kind |-> "ok", value |-> a.text]

\* cmd_batch up to _get_client(): the texts, or the refusal
cmd_batch_input(a, stdin) ==
    LET texts ==
            IF a.texts = <<>> /\ Truthy(_read_stdin_texts(stdin))
            THEN LET lines == splitlines(_read_stdin_texts(stdin).l[1].s)
                 IN [i \in 1 .. Len(lines) |-> JStr(lines[i])]
            ELSE a.texts
    IN IF texts = <<>>
       THEN [kind |-> "reject",
             line |-> "Error: provide texts as arguments or pipe via stdin "
                      \o "(one per line)"]
       ELSE [kind |-> "ok", value |-> texts]

\* what a command checks before it constructs a client
cmd_input(c) ==
    CASE c.command = "translate" -> cmd_translate_input(c.args, c.stdin)
      [] c.command = "batch" -> cmd_batch_input(c.args, c.stdin)
      [] OTHER -> [kind |-> "ok", value |-> None]

\* the call each cmd_* makes on its client
CommandCall(c) ==
    LET a == c.args
        supplied == TranslateKeywords \ {"include_tm_info", "include_rationale"}
    IN CASE c.command = "translate" ->
              [client |-> "Nativ", op |-> "translate",
               args |-> bind_translate_args(supplied,
                   [text |-> cmd_input(c).value,
                    target_language |-> a.to,
                    target_language_code |-> a.to_code,
                    source_language |-> Or(a.source, JStr("English")),
                    source_language_code |-> Or(a.source_code, JStr("en")),
                    context |-> a.context,
                    glossary |-> a.glossary,
                    formality |-> a.formality,
                    max_characters |-> a.max_chars,
                    include_tm_info |-> None,
                    backtranslate |-> a.backtranslate,
                    include_rationale |-> None])]
         [] c.command = "batch" ->
              [client |-> "Nativ", op |-> "translate_batch",
               args |-> [texts |-> cmd_input(c).value,
                         target_language |-> a.to,
                         target_language_code |-> a.to_code,
                         source_language |-> Or(a.source, JStr("English")),
                         source_language_code |-> Or(a.source_code, JStr("en")),
                         context |-> a.context,
                         formality |-> a.formality]]
         [] c.command = "languages" ->
              [client |-> "Nativ", op |-> "get_languages", args |-> NoArgs]
         [] c.command = "tm search" ->
              [client |-> "Nativ", op |-> "search_tm",
               args |-> [query |-> a.query,
                         source_language_code |-> Or(a.source_lang, JStr("en")),
                         target_language_code |-> a.target_lang,
                         min_score |-> a.min_score,
                         limit |-> a.limit]]
         [] c.command = "tm list" ->
              [client |-> "Nativ", op |-> "list_tm_entries",
               args |-> [source_language_code |-> a.source_lang,
                         target_language_code |-> a.target_lang,
                         information_source |-> None,
                         search |-> a.search,
                         enabled_only |-> a.enabled_only,
                         limit |-> a.limit,
                         offset |-> a.offset]]
         [] c.command = "tm add" ->
              [client |-> "Nativ", op |-> "add_tm_entry",
               args |-> [source_text |-> a.source, target_text |-> a.target,
                         source_language_code |-> a.source_lang,
                         target_language_code |-> a.target_lang,
                         name |-> a.name]]
         [] c.command = "tm delete" ->
              [client |-> "Nativ", op |-> "delete_tm_entry",
               args |-> [entry_id |-> a.id]]
         [] c.command = "tm stats" ->
              [client |-> "Nativ", op |-> "get_tm_stats", args |-> NoArgs]
         [] c.command = "style-guides" ->
              [client |-> "Nativ", op |-> "get_style_guides", args |-> NoArgs]
         [] c.command = "brand-voice" ->
              [client |-> "Nativ", op |-> "get_brand_voice", args |-> NoArgs]
         [] c.command = "extract" ->
              [client |-> "Nativ", op |-> "extract_text",
               args |-> [image |-> a.file]]
         [] c.command = "inspect" ->
              [client |-> "Nativ", op |-> "inspect_image",
               args |-> [image |-> a.file,
                         countries |->
                            IF Truthy(a.countries)
                            THEN LET parts == split(a.countries.s, ",")
                                 IN JList([i \in 1 .. Len(parts) |-> JStr(parts[i])])
                            ELSE None]]

\* _get_client(): Nativ() with no arguments
_get_client(environ) ==
    Nativ_init([api_key |-> None, base_url |-> None, timeout |-> JNum(120)],
               environ)

\* an operation c of a client up to its first request: it ends at once, or
\* a request goes out
OperationStart(c) ==
    IF c.op = "translate_batch"
    THEN IF c.args.texts = <<>>
         THEN [kind |-> "done", outcome |-> Returned(<<>>)]
         ELSE [kind |-> "more", results |-> <<>>,
               request |-> Prepare(SubCall(c, 1)).request]
    ELSE LET p == Prepare(c)
         IN IF p.kind = "send"
            THEN [kind |-> "more", results |-> <<>>, request |-> p.request]
            ELSE [kind |-> "done", outcome |-> p]

\* an operation c that has collected res, when got comes back for its
\* request: it ends, or translate_batch goes on to its next text
OperationStep(c, res, got) ==
    IF c.op = "translate_batch"
    THEN LET done == Completion(SubCall(c, Len(res) + 1), got)
         IN IF done.kind = "raise" THEN [kind |-> "done", outcome |-> done]
            ELSE IF Len(res) + 1 = Len(c.args.texts)
            THEN [kind |-> "done", outcome |-> Returned(Append(res, done.value))]
            ELSE [kind |-> "more", results |-> Append(res, done.value),
                  request |-> Prepare(SubCall(c, Len(res) + 2)).request]
    ELSE [kind |-> "done", outcome |-> Completion(c, got)]

\* KeyboardInterrupt, raised in the main thread on SIGINT
Interrupted == Raised("KeyboardInterrupt")

\* a variant of the commands whose close is not in a finally clause
cmd_finish_no_finally(c, obj, o) ==
    IF o.kind = "raise" THEN [self |-> obj, stderr |-> <<>>, outcome |-> o]
    ELSE [self |-> Nativ_close(obj), stderr |-> <<>>,
          outcome |-> Returned(JNum(0))]

\* a cmd_* from the end o of its client operation on: the finally clause
\* closes the client; an exception goes on to main; otherwise the result is
\* printed and 0 returned, but cmd_tm_delete returns 1 for a falsy result
cmd_finish(c, obj, o) ==
    [self |-> Nativ_close(obj),
     stderr |-> IF o.kind = "return" /\ c.command = "tm delete" /\ ~Truthy(o.value)
                THEN <<"Failed to delete " \o c.args.id.s>>
                ELSE <<>>,
     outcome |-> IF o.kind = "raise" THEN o
                 ELSE IF c.command = "tm delete" /\ ~Truthy(o.value)
                 THEN Returned(JNum(1))
                 ELSE Returned(JNum(0))]

\* str(exc): the message of a NativError; for an exception of the
\* interpreter or a library the name of its kind stands for its text
ExceptionText(o) == IF "message" \in DOMAIN o THEN o.message ELSE o.exc

\* a variant of main that handles the errors of the SDK only
main_try_sdk_errors(e) ==
    IF e.outcome.kind = "return" THEN e
    ELSE IF e.outcome.exc = "KeyboardInterrupt"
    THEN [e EXCEPT !.stderr = Append(@, "\nInterrupted."),
                   !.outcome = Returned(JNum(130))]
    ELSE IF e.outcome.exc \in NativErrors
    THEN [e EXCEPT !.stderr = Append(@, "Error: " \o ExceptionText(e.outcome)),
                   !.outcome = Returned(JNum(1))]
    ELSE e

\* the try statement of main around args.func(args), e being how the
\* command ended: its return value is returned, KeyboardInterrupt gives
\* 130, any other exception 1
main_try(e) ==
    IF e.outcome.kind = "return" THEN e
    ELSE IF e.outcome.exc = "KeyboardInterrupt"
    THEN [e EXCEPT !.stderr = Append(@, "\nInterrupted."),
                   !.outcome = Returned(JNum(130))]
    ELSE [e EXCEPT !.stderr = Append(@, "Error: " \o ExceptionText(e.outcome)),
                   !.outcome = Returned(JNum(1))]

\* stdin: a terminal, or a pipe holding data
Stdins ==
    {[isatty |-> TRUE, data |-> ""], [isatty |-> FALSE, data |-> ""],
     [isatty |-> FALSE, data |-> " \n"], [isatty |-> FALSE, data |-> "hello\n"],
     [isatty |-> FALSE, data |-> "hello\nbye\n"]}

Terminal == [isatty |-> TRUE, data |-> ""]

\* the namespaces parse_args gives for the command lines of the model; a
\* file argument stands with what the file system holds at its path
Commands ==
    {[command |-> "translate", stdin |-> in,
      args |-> [text |-> t, to |-> JStr("French"), to_code |-> tc,
                source |-> None, source_code |-> None, context |-> None,
                glossary |-> None, formality |-> None, max_chars |-> None,
                backtranslate |-> JBool(bt)]] :
        in \in Stdins, t \in {None, JStr("-"), JStr("hello")},
        tc \in {None, JStr("fr")}, bt \in BOOLEAN}
    \cup {[command |-> "batch", stdin |-> in,
           args |-> [texts |-> ts, to |-> JStr("French"), to_code |-> None,
                     source |-> src, source_code |-> None, context |-> None,
                     formality |-> None]] :
            in \in Stdins, src \in {None, JStr("German")},
            ts \in {<<>>, <<JStr("hello")>>, <<JStr("hello"), JStr("bye")>>}}
    \cup {[command |-> cmd, stdin |-> Terminal, args |-> NoArgs] :
            cmd \in {"languages", "tm stats", "style-guides", "brand-voice"}}
    \cup {[command |-> "tm search", stdin |-> Terminal,
           args |-> [query |-> JStr("hello"), source_lang |-> sl,
                     target_lang |-> tl, min_score |-> JNum(0),
                     limit |-> JNum(10)]] :
            sl \in {None, JStr("de")}, tl \in {None, JStr("fr")}}
    \cup {[command |-> "tm list", stdin |-> Terminal,
           args |-> [source_lang |-> None, target_lang |-> tl, search |-> None,
                     enabled_only |-> JBool(eo), limit |-> JNum(20),
                     offset |-> JNum(0)]] :
            tl \in {None, JStr("fr")}, eo \in BOOLEAN}
    \cup {[command |-> "tm add", stdin |-> Terminal,
           args |-> [source |-> JStr("Hello"), target |-> JStr("Bonjour"),
                     source_lang |-> JStr("en"), target_lang |-> JStr("fr-FR"),
                     name |-> n]] : n \in {None, JStr("hero")}}
    \cup {[command |-> "tm delete", stdin |-> Terminal,
           args |-> [id |-> JStr("e1")]]}
    \cup {[command |-> "extract", stdin |-> Terminal, args |-> [file |-> f]] :
            f \in {f \in FileInputs : f.kind = "path"}}
    \cup {[command |-> "inspect", stdin |-> Terminal,
           args |-> [file |-> f, countries |-> cs]] :
            f \in {f \in FileInputs : f.kind = "path"},
            cs \in {None, JStr(""), JStr("FR"), JStr("FR,DE")}}

\* main(argv) for a command line that selects a command, in an environment
\* with or without NATIV_API_KEY
MainCalls ==
    {[op |-> "main", command |-> c.command, args |-> c.args, stdin |-> c.stdin,
      environ |-> Environ(k, None)] :
        c \in Commands, k \in {None, JStr("nativ_from_env")}}

(***************************************************************************)
(* One run of main.  pc is "main" before the command runs, "awaiting"      *)
(* while a request of its client is in flight, "returned" after main has   *)
(* returned; outcome is then the return of main, or the exception that     *)
(* left it.                                                                *)
(***************************************************************************)
InitCli ==
    /\ call \in MainCalls
    /\ outcome = Pending
    /\ NoTraffic
    /\ self = NoAttributes
    /\ pc = "main"
    /\ stderr = <<>>

\* the call the command of this run makes on its client
Operation == CommandCall(call)

\* cmd_translate or cmd_batch finds no text: one line on stderr, return 1
MainRejectInput ==
    /\ call \in MainCalls
    /\ pc = "main"
    /\ cmd_input(call).kind = "reject"
    /\ stderr' = <<cmd_input(call).line>>
    /\ outcome' = Returned(JNum(1))
    /\ pc' = "returned"
    /\ UNCHANGED <<call, sent, received, results, self>>

\* _get_client() raises: the exception leaves the command and main handles it
MainNoClient ==
    /\ call \in MainCalls
    /\ pc = "main"
    /\ cmd_input(call).kind = "ok"
    /\ _get_client(call.environ).outcome.kind = "raise"
    /\ LET e == main_try([self |-> self, stderr |-> stderr,
                          outcome |-> _get_client(call.environ).outcome])
       IN /\ stderr' = e.stderr
          /\ outcome' = e.outcome
    /\ pc' = "returned"
    /\ UNCHANGED <<call, sent, received, results, self>>

\* the command constructs its client and calls the operation, which raises
\* before any request or sends its first request
MainCommand ==
    /\ call \in MainCalls
    /\ pc = "main"
    /\ cmd_input(call).kind = "ok"
    /\ _get_client(call.environ).outcome.kind = "return"
    /\ \E client \in {_get_client(call.environ).self},
          start \in {OperationStart(Operation)} :
          IF start.kind = "more"
          THEN /\ self' = client
               /\ sent' = Append(sent, start.request)
               /\ pc' = "awaiting"
               /\ UNCHANGED <<outcome, stderr>>
          ELSE \E done \in {cmd_finish(call, client, start.outcome)} :
               \E e \in {main_try(done)} :
                  /\ self' = e.self
                  /\ stderr' = e.stderr
                  /\ outcome' = e.outcome
                  /\ pc' = "returned"
                  /\ UNCHANGED sent
    /\ UNCHANGED <<call, received, results>>

\* got comes back for the request in flight: translate_batch sends its next
\* request, or the operation ends, the command finishes and main returns
MainReceive(got) ==
    /\ received' = Append(received, got)
    /\ \E step \in {OperationStep(Operation, results, got)} :
          IF step.kind = "more"
          THEN /\ results' = step.results
               /\ sent' = Append(sent, step.request)
               /\ UNCHANGED <<self, stderr, outcome, pc>>
          ELSE \E done \in {cmd_finish(call, self, step.outcome)} :
               \E e \in {main_try(done)} :
                  /\ self' = e.self
                  /\ stderr' = e.stderr
                  /\ outcome' = e.outcome
                  /\ pc' = "returned"
                  /\ UNCHANGED <<results, sent>>
    /\ UNCHANGED call

\* the server answers the request of the command
MainRespond ==
    /\ call \in MainCalls
    /\ pc = "awaiting"
    /\ \E resp \in ClientResponses : MainReceive(GotResponse(resp))

\* the transport fails on the request of the command
MainTransportFailure ==
    /\ call \in MainCalls
    /\ pc = "awaiting"
    /\ MainReceive(TransportFailed)

\* SIGINT while the command waits for the response: KeyboardInterrupt is
\* raised inside the client operation
MainInterrupt ==
    /\ call \in MainCalls
    /\ pc = "awaiting"
    /\ \E done \in {cmd_finish(call, self, Interrupted)} :
       \E e \in {main_try(done)} :
          /\ self' = e.self
          /\ stderr' = e.stderr
          /\ outcome' = e.outcome
    /\ pc' = "returned"
    /\ UNCHANGED <<call, sent, received, results>>

NextCli ==
    \/ MainRejectInput
    \/ MainNoClient
    \/ MainCommand
    \/ MainRespond
    \/ MainTransportFailure
    \/ MainInterrupt

SpecCli == InitCli /\ [][NextCli]_vars

(***************************************************************************)
(* Concurrent calls on one AsyncNativ: asyncio.gather over MaxTasks        *)
(* coroutines of the same client.  Every variable but call, self and       *)
(* stderr holds one entry per task: sent[i] and received[i] are the        *)
(* requests of task i and what came back for them.                         *)
(* pc[i] is "start", "awaiting" (the request of task i is in flight),      *)
(* "ready" (its response has arrived, the task is scheduled) or "done".    *)
(***************************************************************************)
MaxTasks == 2

AsyncTasks == 1 .. MaxTasks

\* the calls of the tasks: translate, an update that raises before sending,
\* and translate_batch with two texts
GatherOperations ==
    {c \in ClientCalls :
        /\ c.client = "AsyncNativ"
        /\ \/ c.op = "translate" /\ c.args.formality = None
              /\ c.args.target_language_code = None
              /\ c.args.max_characters = None
              /\ c.args.include_rationale = JBool(TRUE)
           \/ c.op = "update_tm_entry" /\ c.args.target_text = None
              /\ c.args.enabled = None
           \/ c.op = "translate_batch" /\ c.args.target_language_code = None
              /\ c.args.context = None
              /\ c.args.texts = <<JStr("hello"), JStr("bye")>>}

GatherCalls ==
    {[op |-> "gather", client |-> "AsyncNativ", tasks |-> ts] :
        ts \in [AsyncTasks -> GatherOperations]}

\* what the server answers the tasks
GatherResponses ==
    {r \in ClientResponses :
        \/ r.status_code = 200 /\ r.text = "{\"translated_text\": \"Bonjour\"}"
        \/ r.status_code = 404 /\ r.text = "{\"detail\": \"test error\"}"}

InitAsync ==
    /\ call \in GatherCalls
    /\ outcome = [i \in AsyncTasks |-> Pending]
    /\ sent = [i \in AsyncTasks |-> <<>>]
    /\ received = [i \in AsyncTasks |-> <<>>]
    /\ results = [i \in AsyncTasks |-> <<>>]
    /\ self = ConstructedClient("AsyncNativ")
    /\ pc = [i \in AsyncTasks |-> "start"]
    /\ stderr = <<>>

\* a variant in which a resumed task takes what came back last for the
\* first task that has an answer
Awaited_shared(i) ==
    LET k == CHOOSE k \in AsyncTasks :
                /\ received[k] # <<>>
                /\ \A j \in AsyncTasks : received[j] # <<>> => k <= j
    IN received[k][Len(received[k])]

\* resp = await self._client.request(...): the task is resumed with what
\* came back for its own request
Awaited(i) == received[i][Len(received[i])]

\* the event loop runs a task from its start to its first await of the
\* network, or to its end when it raises before sending
TaskStart ==
    /\ call \in GatherCalls
    /\ \E i \in AsyncTasks :
          /\ pc[i] = "start"
          /\ \E start \in {OperationStart(call.tasks[i])} :
                IF start.kind = "more"
                THEN /\ sent' = [sent EXCEPT ![i] = Append(@, start.request)]
                     /\ pc' = [pc EXCEPT ![i] = "awaiting"]
                     /\ UNCHANGED outcome
                ELSE /\ outcome' = [outcome EXCEPT ![i] = start.outcome]
                     /\ pc' = [pc EXCEPT ![i] = "done"]
                     /\ UNCHANGED sent
    /\ UNCHANGED <<call, received, results, self, stderr>>

\* the response to the request of a task arrives: the task is scheduled
ResponseArrives ==
    /\ call \in GatherCalls
    /\ \E i \in AsyncTasks, resp \in GatherResponses :
          /\ pc[i] = "awaiting"
          /\ received' = [received EXCEPT ![i] = Append(@, GotResponse(resp))]
          /\ pc' = [pc EXCEPT ![i] = "ready"]
    /\ UNCHANGED <<call, outcome, sent, results, self, stderr>>

\* the transport fails on the request of a task: the task is scheduled
TransportFails ==
    /\ call \in GatherCalls
    /\ \E i \in AsyncTasks :
          /\ pc[i] = "awaiting"
          /\ received' = [received EXCEPT ![i] = Append(@, TransportFailed)]
          /\ pc' = [pc EXCEPT ![i] = "ready"]
    /\ UNCHANGED <<call, outcome, sent, results, self, stderr>>

\* the event loop resumes a scheduled task: it runs to its end, or
\* translate_batch runs to the await of its next request
TaskResume ==
    /\ call \in GatherCalls
    /\ \E i \in AsyncTasks :
          /\ pc[i] = "ready"
          /\ \E step \in {OperationStep(call.tasks[i], results[i], Awaited(i))} :
                IF step.kind = "more"
                THEN /\ results' = [results EXCEPT ![i] = step.results]
                     /\ sent' = [sent EXCEPT ![i] = Append(@, step.request)]
                     /\ pc' = [pc EXCEPT ![i] = "awaiting"]
                     /\ UNCHANGED outcome
                ELSE /\ outcome' = [outcome EXCEPT ![i] = step.outcome]
                     /\ pc' = [pc EXCEPT ![i] = "done"]
                     /\ UNCHANGED <<results, sent>>
    /\ UNCHANGED <<call, received, self, stderr>>

NextAsync ==
    \/ TaskStart
    \/ ResponseArrives
    \/ TransportFails
    \/ TaskResume

SpecAsync == InitAsync /\ [][NextAsync]_vars

(***************************************************************************)
(* All operations together.                                                *)
(***************************************************************************)
Init ==
    \/ InitStatus \/ InitEncode \/ InitDecode \/ InitClient \/ InitConstruct
    \/ InitScope \/ InitCli \/ InitAsync

Next ==
    \/ NextStatus \/ NextEncode \/ NextDecode \/ NextClient \/ NextConstruct
    \/ NextScope \/ NextCli \/ NextAsync

Spec == Init /\ [][Next]_vars

(***************************************************************************)
(* Properties of the error mapping.                                        *)
(***************************************************************************)
\* the status of the response the call received
Status == call.resp.status_code

\* a member of the hierarchy was raised
RaisedNativError == outcome.kind = "raise" /\ outcome.exc \in NativErrors

\* the kind the error table gives a 4xx or 5xx status
TableKind(s) ==
    CASE s = 401 -> "AuthenticationError"
      [] s = 402 -> "InsufficientCreditsError"
      [] s = 404 -> "NotFoundError"
      [] s = 429 -> "RateLimitError"
      [] s \in (400 .. 499) \ {401, 402, 404, 429} -> "ValidationError"
      [] s \in 500 .. 599 -> "ServerError"

\* C1: every response with a 4xx or 5xx status raises the kind the table
\* gives that status, whatever the body, and the error carries the status.
C1_KindByStatusAlone ==
    (call.op = "_raise_for_status" /\ outcome # Pending /\ Status \in 400 .. 599) =>
        /\ outcome.kind = "raise"
        /\ outcome.exc = TableKind(Status)
        /\ "status_code" \in DOMAIN outcome
        /\ outcome.status_code = Status

\* C2: a request answered with a non-2xx status fails with one of the six
\* kinds of the hierarchy, carrying the status code and a body, whatever
\* the response body is.
C2_OnlyTaxonomyEscapes ==
    (call.op = "_request" /\ outcome # Pending /\ ~is_success(call.resp)) =>
        /\ outcome.kind = "raise"
        /\ outcome.exc \in NativErrors
        /\ "status_code" \in DOMAIN outcome
        /\ outcome.status_code = Status
        /\ "body" \in DOMAIN outcome

\* C3: ServerError is raised only for a status in 500..599.
C3_ServerErrorOnlyFor5xx ==
    (outcome.kind = "raise" /\ outcome.exc = "ServerError") =>
        Status \in 500 .. 599

\* C4 as stated: the message of the raised error is the detail field of its
\* body when the body has one, and "HTTP <status>" when it has none.
C4_DetailOrHttpStatus ==
    (call.op = "_raise_for_status" /\ RaisedNativError) =>
        IF "detail" \in DOMAIN outcome.body.o
        THEN outcome.message = Str(outcome.body.o["detail"])
        ELSE outcome.message = "HTTP " \o ToString(Status)

\* C4 as amended: the message is the string form of the body's detail when
\* that is truthy, "HTTP <status>" when the detail is present but falsy
\* (empty, null, zero), and the raw response text when the body has no
\* detail field.
C4_DetailTextOrHttpStatus ==
    (call.op = "_raise_for_status" /\ RaisedNativError) =>
        IF "detail" \in DOMAIN outcome.body.o
        THEN IF Truthy(outcome.body.o["detail"])
             THEN outcome.message = Str(outcome.body.o["detail"])
             ELSE outcome.message = "HTTP " \o ToString(Status)
        ELSE /\ call.resp.text # ""
             /\ outcome.message = call.resp.text

\* C4 witness: an error raised from a JSON object without a detail field
C4_Witness ==
    /\ call.op = "_raise_for_status"
    /\ RaisedNativError
    /\ "detail" \notin DOMAIN outcome.body.o
    /\ outcome.message = "{\"error\": \"quota\"}"

\* C5: on a non-2xx response the raised error's body is the parsed payload
\* when the text is JSON, and {"detail": text} when it is not.
C5_BodyParsedOrWrapped ==
    (call.op = "_raise_for_status" /\ outcome # Pending /\ ~is_success(call.resp)) =>
        /\ outcome.kind = "raise"
        /\ "body" \in DOMAIN outcome
        /\ IF JsonLoads(call.resp.text).ok
           THEN outcome.body = JsonLoads(call.resp.text).v
           ELSE outcome.body = JObj(Dict1("detail", JStr(call.resp.text)))

(***************************************************************************)
(* Properties of the translate request body.                               *)
(***************************************************************************)
\* the optional arguments and the wire key of each
OptionalArgs ==
    {<<"target_language_code", "language_code">>, <<"context", "context">>,
     <<"glossary", "glossary">>, <<"formality", "formality">>,
     <<"max_characters", "max_characters">>}

OptionalStrArgs == {p \in OptionalArgs : p[1] # "max_characters"}

BodyBuilt == call.op = "_build_translate_body" /\ outcome.kind = "return"

\* the value the caller gave the optional argument k: null when the caller
\* did not pass it
OptionalArg(k) == IF k \in call.supplied THEN call.args[k] ELSE None

OnlyRequiredArgs == \A p \in OptionalArgs : OptionalArg(p[1]) = None

\* C9: a body built from the required arguments alone has none of the
\* optional keys, and no key of any body maps to null.
C9_OptionalsOmittedNeverNull ==
    BodyBuilt =>
        /\ OnlyRequiredArgs =>
              \A p \in OptionalArgs : p[2] \notin DOMAIN outcome.value
        /\ \A k \in DOMAIN outcome.value : outcome.value[k] # None

\* C9 witness: a body built from the required arguments alone
C9_Witness ==
    /\ BodyBuilt
    /\ OnlyRequiredArgs
    /\ DOMAIN outcome.value =
          {"text", "language", "source_language", "source_language_code",
           "tool", "include_tm_info", "backtranslate", "include_rationale"}

\* C10 as stated: an optional key is in the body exactly when its argument
\* is not null, the empty string and 0 included, with the supplied value.
C10_PresentIffNonNull ==
    BodyBuilt =>
        \A p \in OptionalArgs :
            /\ (p[2] \in DOMAIN outcome.value) <=> (OptionalArg(p[1]) # None)
            /\ (p[2] \in DOMAIN outcome.value) =>
                  outcome.value[p[2]] = OptionalArg(p[1])

\* C10 as amended: each of language_code, context, glossary and formality is
\* in the body exactly when its argument is neither null nor the empty
\* string; max_characters is in the body exactly when its argument is not
\* null, 0 included; a key that is present carries the supplied value.
C10_PresentIffSupplied ==
    BodyBuilt =>
        /\ \A p \in OptionalStrArgs :
              (p[2] \in DOMAIN outcome.value) <=>
                  (OptionalArg(p[1]) # None /\ OptionalArg(p[1]) # JStr(""))
        /\ ("max_characters" \in DOMAIN outcome.value) <=>
              (OptionalArg("max_characters") # None)
        /\ \A p \in OptionalArgs :
              (p[2] \in DOMAIN outcome.value) =>
                  outcome.value[p[2]] = OptionalArg(p[1])

\* C10 witness: max_characters=0 is sent, context="" is not
C10_Witness ==
    /\ BodyBuilt
    /\ OptionalArg("max_characters") = JNum(0)
    /\ OptionalArg("context") = JStr("")
    /\ OptionalArg("formality") = JStr("formal")
    /\ "max_characters" \in DOMAIN outcome.value
    /\ outcome.value["max_characters"] = JNum(0)
    /\ "context" \notin DOMAIN outcome.value
    /\ outcome.value["formality"] = JStr("formal")

\* the keys every body is created with
RequiredKeys ==
    {"text", "language", "source_language", "source_language_code",
     "tool", "include_tm_info", "backtranslate", "include_rationale"}

\* C11: every translate body has the eight keys; text and language are the
\* caller's, tool is "api"; a flag or source language the caller passes is
\* sent as passed, and one the caller does not pass is sent as true, false,
\* true (include_tm_info, backtranslate, include_rationale) and
\* "English"/"en".
C11_RequiredKeysAndDefaults ==
    BodyBuilt =>
        LET body == outcome.value
            Sent(k, default) ==
                body[k] = IF k \in call.supplied THEN call.args[k] ELSE default
        IN /\ RequiredKeys \subseteq DOMAIN body
           /\ body["text"] = call.args.text
           /\ body["language"] = call.args.target_language
           /\ body["tool"] = JStr("api")
           /\ Sent("include_tm_info", JBool(TRUE))
           /\ Sent("backtranslate", JBool(FALSE))
           /\ Sent("include_rationale", JBool(TRUE))
           /\ Sent("source_language", JStr("English"))
           /\ Sent("source_language_code", JStr("en"))

\* C11 witness: a call passing text and target language only
C11_Witness ==
    /\ BodyBuilt
    /\ call.supplied = {}
    /\ call.args.include_rationale = JBool(FALSE)
    /\ outcome.value =
          [text |-> JStr("hello"), language |-> JStr("French"),
           source_language |-> JStr("English"),
           source_language_code |-> JStr("en"), tool |-> JStr("api"),
           include_tm_info |-> JBool(TRUE), backtranslate |-> JBool(FALSE),
           include_rationale |-> JBool(TRUE)]

(***************************************************************************)
(* Properties of the response decoders.                                    *)
(***************************************************************************)
TranslationCall == call.op = "_parse_translation" /\ outcome # Pending

\* the payload holds a tm_match object with a score above zero
PositiveScoreTmMatch ==
    /\ "tm_match" \in DOMAIN call.data
    /\ call.data["tm_match"].t = "obj"
    /\ "score" \in DOMAIN call.data["tm_match"].o
    /\ call.data["tm_match"].o["score"].n > 0

\* C6: the decoded Translation has a tm_match exactly when the payload has a
\* tm_match object whose score is above zero; the decoded tm_match then
\* carries the payload's score and, index by index, the payload's
\* top_matches.
C6_TmMatchIffPositiveScore ==
    TranslationCall =>
        /\ outcome.kind = "return"
        /\ (outcome.value.tm_match # None) <=> PositiveScoreTmMatch
        /\ PositiveScoreTmMatch =>
              LET tm == call.data["tm_match"].o
                  tops == IF "top_matches" \in DOMAIN tm
                          THEN tm["top_matches"].l ELSE <<>>
                  decoded == outcome.value.tm_match
              IN /\ decoded.score = tm["score"]
                 /\ Len(decoded.top_matches) = Len(tops)
                 /\ \A i \in 1 .. Len(tops) :
                       \A k \in DOMAIN tops[i].o :
                           decoded.top_matches[i][k] = tops[i].o[k]

\* C6 witness: a zero-score tm_match object, with all its other fields,
\* decoded to null
C6_Witness ==
    /\ TranslationCall
    /\ "tm_match" \in DOMAIN call.data
    /\ call.data["tm_match"] = JObj(FullTmMatch(0, TwoDetails))
    /\ outcome.value.tm_match = None

\* C7: decoding always returns a Translation with a metadata object; counts
\* the payload lacks are 0, a missing translated_text is "", and missing
\* rationale, backtranslation and tm_match are null.
C7_TranslationDefaults ==
    TranslationCall =>
        /\ outcome.kind = "return"
        /\ LET v == outcome.value
               md == IF "metadata" \in DOMAIN call.data
                     THEN call.data["metadata"].o ELSE EmptyDict
           IN /\ v.metadata # None
              /\ DOMAIN v.metadata = {"word_count", "cost"}
              /\ \A k \in {"word_count", "cost"} :
                    v.metadata[k] = IF k \in DOMAIN md THEN md[k] ELSE JNum(0)
              /\ "translated_text" \notin DOMAIN call.data =>
                    v.translated_text = JStr("")
              /\ \A k \in {"rationale", "backtranslation", "tm_match"} :
                    k \notin DOMAIN call.data => v[k] = None

\* C7 witness: the minimal response {"translated_text": ..., "metadata": {}}
C7_Witness ==
    /\ TranslationCall
    /\ call.data = [translated_text |-> JStr("Bonjour le monde"),
                    metadata |-> JObj(EmptyDict)]
    /\ outcome.value.metadata = [word_count |-> JNum(0), cost |-> JNum(0)]
    /\ outcome.value.tm_match = None
    /\ outcome.value.rationale = None

\* C8: no decoder fails on a payload that lacks keys, at any level: each
\* returns a domain object.
C8_DecodersNeverRaise ==
    (call \in DecodeCalls /\ outcome # Pending) => outcome.kind = "return"

\* C12: a TM entry decodes enabled and priority to the payload's values
\* when it has them (false and 0 included), to true and 50 when it lacks
\* them; a missing id decodes to "".
C12_TMEntryDefaults ==
    (call.op = "_parse_tm_entry" /\ outcome # Pending) =>
        /\ outcome.kind = "return"
        /\ outcome.value.enabled =
              IF "enabled" \in DOMAIN call.data
              THEN call.data["enabled"] ELSE JBool(TRUE)
        /\ outcome.value.priority =
              IF "priority" \in DOMAIN call.data
              THEN call.data["priority"] ELSE JNum(50)
        /\ "id" \notin DOMAIN call.data => outcome.value.id = JStr("")

\* C12 witness: enabled=false and priority=0 are kept, the missing id is ""
C12_Witness ==
    /\ call.op = "_parse_tm_entry"
    /\ outcome # Pending
    /\ call.data = [enabled |-> JBool(FALSE), priority |-> JNum(0)]
    /\ outcome.value.enabled = JBool(FALSE)
    /\ outcome.value.priority = JNum(0)
    /\ outcome.value.id = JStr("")

\* the id of a decoded style guide is the string form of the wire id
StringOfWireId(guide, data) ==
    /\ guide.id.t = "str"
    /\ ("id" \in DOMAIN data /\ data["id"].t = "num") =>
          guide.id.s = ToString(data["id"].n)
    /\ ("id" \in DOMAIN data /\ data["id"].t = "str") =>
          guide.id = data["id"]

\* C13: the id of every decoded StyleGuide is a string: the decimal form of
\* a numeric wire id, a string wire id itself; for the guide decoded by
\* _parse_style_guide (create_style_guide, update_style_guide) and for each
\* guide of get_style_guides.
C13_StyleGuideIdIsString ==
    /\ (call.op = "_parse_style_guide" /\ outcome # Pending) =>
          /\ outcome.kind = "return"
          /\ StringOfWireId(outcome.value, call.data)
    /\ (call.op = "parse_style_guides" /\ outcome # Pending) =>
          /\ outcome.kind = "return"
          /\ LET gs == IF "guides" \in DOMAIN call.data
                       THEN call.data["guides"].l ELSE <<>>
             IN /\ Len(outcome.value) = Len(gs)
                /\ \A i \in 1 .. Len(gs) :
                      StringOfWireId(outcome.value[i], gs[i].o)

\* C13 witness: the wire id 7 decoded to "7"
C13_Witness ==
    /\ call.op = "_parse_style_guide"
    /\ outcome # Pending
    /\ "id" \in DOMAIN call.data
    /\ call.data["id"] = JNum(7)
    /\ outcome.value.id = JStr("7")

(***************************************************************************)
(* Properties of the clients.                                              *)
(***************************************************************************)
ClientCall == call \in ClientCalls
BatchCall == ClientCall /\ call.op = "translate_batch"
SingleCall == ClientCall /\ call.op # "translate_batch"

\* an update that names no field to change
ZeroFieldUpdate ==
    /\ ClientCall
    /\ \/ /\ call.op = "update_tm_entry"
          /\ call.args.target_text = None
          /\ call.args.enabled = None
       \/ /\ call.op = "update_style_guide"
          /\ call.args.title = None
          /\ call.args.content = None
          /\ call.args.is_enabled = None

\* C14: an update with no field to change (update_tm_entry, update_style_guide,
\* on either client) sends no HTTP request and ends in a ValidationError.
C14_EmptyUpdateRaisesLocally ==
    ZeroFieldUpdate =>
        /\ sent = <<>>
        /\ outcome # Pending =>
              outcome.kind = "raise" /\ outcome.exc = "ValidationError"

\* the decoding of the i-th thing received, as a Translation
DecodedResponse(i) == _parse_translation(JsonLoads(received[i].resp.text).v.o)

\* C15: translate_batch sends its requests one at a time (no request while
\* one is in flight), each a POST /text/culturalize, the i-th for texts[i];
\* when it returns it has sent one request per text and element i of the
\* list is the decoding of the i-th response; for no texts it sends nothing
\* and returns the empty list.
C15_BatchSequentialInOrder ==
    BatchCall =>
        LET N == Len(call.args.texts)
        IN /\ Len(sent) <= Len(received) + 1
           /\ Len(sent) <= N
           /\ \A i \in 1 .. Len(sent) :
                 /\ sent[i].method = "POST"
                 /\ sent[i].path = "/text/culturalize"
                 /\ sent[i].json.o["text"] = call.args.texts[i]
           /\ outcome.kind = "return" =>
                 /\ Len(sent) = N
                 /\ Len(received) = N
                 /\ Len(outcome.value) = N
                 /\ \A i \in 1 .. N :
                       /\ received[i].kind = "response"
                       /\ outcome.value[i] = DecodedResponse(i)

\* C15 witness: two texts, two different responses, the list in input order
C15_Witness ==
    /\ BatchCall
    /\ call.args.texts = <<JStr("hello"), JStr("bye")>>
    /\ outcome.kind = "return"
    /\ Len(sent) = 2
    /\ received[1].resp.text = "{}"
    /\ received[2].resp.text = "{\"translated_text\": \"Bonjour\"}"
    /\ outcome.value[1].translated_text = JStr("")
    /\ outcome.value[2].translated_text = JStr("Bonjour")

\* C16: when the k-th sub-call of translate_batch fails, it is the last
\* request sent, its exception is the outcome of translate_batch, unchanged,
\* and no list is returned.
C16_BatchAbortsOnFirstFailure ==
    BatchCall =>
        \A k \in 1 .. Len(received) :
            LET done == Completion(SubCall(call, k), received[k])
            IN done.kind = "raise" =>
                  /\ Len(sent) = k
                  /\ Len(received) = k
                  /\ outcome = done

\* C16 witness: the second of three or two texts failed after the first
\* succeeded
C16_Witness ==
    /\ BatchCall
    /\ Len(call.args.texts) >= 2
    /\ Len(received) = 2
    /\ Len(results) = 1
    /\ received[2] = GotResponse([status_code |-> 500, text |-> "Internal Server Error"])
    /\ outcome.kind = "raise"
    /\ outcome.exc = "ServerError"
    /\ Len(sent) = 2

\* C17: a single operation sends at most one request; one that got past its
\* local checks has sent exactly one when it ends, whatever came back (a
\* non-2xx response or a transport failure included).
C17_OneRequestNoRetry ==
    SingleCall =>
        /\ Len(sent) <= 1
        /\ Len(received) <= Len(sent)
        /\ (outcome # Pending /\ Prepare(call).kind = "send") =>
              Len(sent) = 1 /\ Len(received) = 1

\* C17 witness: a 500 response ended the operation after its one request
C17_Witness ==
    /\ SingleCall
    /\ Len(sent) = 1
    /\ Len(received) = 1
    /\ received[1].kind = "response"
    /\ received[1].resp.status_code = 500
    /\ outcome.kind = "raise"

\* the same call on the other client
Twin(c) ==
    [c EXCEPT !.client = IF c.client = "Nativ" THEN "AsyncNativ" ELSE "Nativ"]

\* C20: whatever a client has sent and whatever its operation ended with is
\* what the other client sends and ends with for the same arguments and the
\* same responses: the same request (method, path, json, params, data,
\* files) or the same local error, and the same returned object or the same
\* exception with the same message, status_code and body.
C20_SyncAsyncEquivalent ==
    ClientCall =>
        LET twin == Twin(call)
        IN IF call.op = "translate_batch"
           THEN /\ \A i \in 1 .. Len(sent) :
                      sent[i] = Prepare(SubCall(twin, i)).request
                /\ \A k \in 1 .. Len(received) :
                      LET done == Completion(SubCall(twin, k), received[k])
                      IN IF done.kind = "return"
                         THEN results[k] = done.value
                         ELSE outcome = done
           ELSE LET p == Prepare(twin)
                IN /\ (p.kind = "send" /\ (sent # <<>> \/ outcome # Pending)) =>
                         sent = <<p.request>>
                   /\ p.kind # "send" =>
                         sent = <<>> /\ (outcome # Pending => outcome = p)
                   /\ received # <<>> =>
                         outcome = Completion(twin, received[1])

\* C20 witness: AsyncNativ.add_tm_entry got a 404 and raised the
\* NotFoundError that Nativ.add_tm_entry raises for it
C20_Witness ==
    /\ ClientCall
    /\ call.client = "AsyncNativ"
    /\ call.op = "add_tm_entry"
    /\ Len(received) = 1
    /\ received[1] = GotResponse([status_code |-> 404,
                                  text |-> "{\"detail\": \"test error\"}"])
    /\ sent = <<Nativ_prepare(call.op, call.args).request>>
    /\ outcome.kind = "raise"
    /\ outcome.exc = "NotFoundError"
    /\ outcome.message = "test error"

(***************************************************************************)
(* Properties of construction.                                             *)
(***************************************************************************)
ConstructorDone == call \in ConstructCalls /\ outcome # Pending

\* a str that is not empty
NonEmpty(v) == v.t = "str" /\ v.s # ""

\* C18: the key of a constructed client is the api_key argument when that
\* is a non-empty key, else the NATIV_API_KEY variable; when neither is a
\* non-empty key the constructor (Nativ or AsyncNativ) raises
\* AuthenticationError, no HTTP client exists and no request was sent.
C18_ApiKeyResolvedOrAuthError ==
    ConstructorDone =>
        LET arg == call.args.api_key
            env == environ_get(call.environ, "NATIV_API_KEY")
        IN /\ NonEmpty(arg) =>
                 outcome.kind = "return" /\ self["_api_key"] = arg
           /\ (~NonEmpty(arg) /\ NonEmpty(env)) =>
                 outcome.kind = "return" /\ self["_api_key"] = env
           /\ (~NonEmpty(arg) /\ ~NonEmpty(env)) =>
                 /\ outcome.kind = "raise"
                 /\ outcome.exc = "AuthenticationError"
                 /\ "_client" \notin DOMAIN self
                 /\ sent = <<>>
           /\ outcome.kind = "return" =>
                 self["_client"].headers["X-API-Key"] = self["_api_key"]

\* C18 witness: no argument and an empty variable raised AuthenticationError
\* on AsyncNativ before any HTTP client existed
C18_Witness ==
    /\ ConstructorDone
    /\ call.client = "AsyncNativ"
    /\ call.args.api_key = None
    /\ environ_get(call.environ, "NATIV_API_KEY") = JStr("")
    /\ outcome.kind = "raise"
    /\ outcome.exc = "AuthenticationError"
    /\ self = NoAttributes

\* url without its trailing slashes
Stripped(url) == JStr(rstrip(url.s, "/"))

EndsWithSlash(s) == Len(s) > 0 /\ SubSeq(s, Len(s), Len(s)) = "/"

\* C19 as stated: the base URL is the base_url argument if one is given
\* (not None), else the NATIV_API_URL variable if it is set, else the
\* default, and it never ends with a slash.
C19_BaseUrlGivenSetDefault ==
    (ConstructorDone /\ outcome.kind = "return") =>
        LET arg == call.args.base_url
        IN /\ self["_base_url"] =
                 Stripped(IF arg # None THEN arg
                          ELSE IF "NATIV_API_URL" \in DOMAIN call.environ
                          THEN call.environ["NATIV_API_URL"]
                          ELSE JStr(DEFAULT_BASE_URL))
           /\ ~EndsWithSlash(self["_base_url"].s)

\* C19, amended: the base URL is the base_url argument if that is a
\* non-empty string, else the NATIV_API_URL variable if that is set and not
\* empty, else the default, in each case without its trailing slashes: it
\* never ends with a slash, and the HTTP client is created with it.
C19_BaseUrlNonEmptyElseDefault ==
    (ConstructorDone /\ outcome.kind = "return") =>
        LET arg == call.args.base_url
            env == environ_get(call.environ, "NATIV_API_URL")
        IN /\ self["_base_url"] =
                 Stripped(IF NonEmpty(arg) THEN arg
                          ELSE IF NonEmpty(env) THEN env
                          ELSE JStr(DEFAULT_BASE_URL))
           /\ ~EndsWithSlash(self["_base_url"].s)
           /\ self["_client"].base_url = self["_base_url"]

\* C19 witness: NATIV_API_URL set to the empty string and no argument: the
\* client is constructed with the default
C19_Witness ==
    /\ ConstructorDone
    /\ outcome.kind = "return"
    /\ call.args.base_url = None
    /\ "NATIV_API_URL" \in DOMAIN call.environ
    /\ call.environ["NATIV_API_URL"] = JStr("")
    /\ self["_base_url"] = JStr(DEFAULT_BASE_URL)

(***************************************************************************)
(* Further properties of the clients.                                      *)
(***************************************************************************)
\* the last thing that came back
LastReceived == received[Len(received)]

\* the body of the first response, parsed
FirstBody == JsonLoads(received[1].resp.text)

\* the fields of an entry that add_tm_entry can post
PostedEntryKeys ==
    {"source_text", "target_text", "source_language_code",
     "target_language_code", "information_source", "source_name"}

\* the server answered add_tm_entry with a success whose body is an object
\* holding the fields it was sent, with the values it was sent
EchoedBack ==
    /\ ClientCall
    /\ call.op = "add_tm_entry"
    /\ received # <<>>
    /\ received[1].kind = "response"
    /\ is_success(received[1].resp)
    /\ FirstBody.ok
    /\ FirstBody.v.t = "obj"
    /\ Restrict(FirstBody.v.o, PostedEntryKeys) = sent[1].json.o

\* C27: when the server echoes the entry add_tm_entry posted, the TMEntry
\* returned has the caller's source_text, target_text, source_language_code,
\* target_language_code and name (as source_name), whatever their values,
\* and information_source "manual".
C27_AddTMEntryRoundTrip ==
    EchoedBack =>
        /\ outcome.kind = "return"
        /\ outcome.value.source_text = call.args.source_text
        /\ outcome.value.target_text = call.args.target_text
        /\ outcome.value.source_language_code = call.args.source_language_code
        /\ outcome.value.target_language_code = call.args.target_language_code
        /\ outcome.value.information_source = JStr("manual")
        /\ outcome.value.source_name = call.args.name

\* C28: when the transport fails on a request, the call (a single operation
\* or translate_batch) ends with the transport's own exception, which is no
\* member of the SDK's hierarchy; nothing is returned and no request follows.
C28_TransportErrorUnwrapped ==
    (ClientCall /\ received # <<>> /\ LastReceived.kind = "error") =>
        /\ outcome.kind = "raise"
        /\ outcome.exc = LastReceived.exc
        /\ outcome.exc \notin NativErrors
        /\ outcome = Raised(LastReceived.exc)
        /\ Len(sent) = Len(received)

\* C28 witness: the transport failed on the second request of a batch
C28_Witness ==
    /\ BatchCall
    /\ Len(received) = 2
    /\ received[1].kind = "response"
    /\ received[2] = TransportFailed
    /\ outcome = Raised("httpx.TransportError")
    /\ Len(sent) = 2

\* C29: when a 2xx response has a body that is not JSON, the call ends with
\* an exception that is no member of the SDK's hierarchy: no object and no
\* success flag is returned.
C29_BadJsonOnSuccessRaises ==
    (/\ ClientCall
     /\ received # <<>>
     /\ LastReceived.kind = "response"
     /\ is_success(LastReceived.resp)
     /\ ~JsonLoads(LastReceived.resp.text).ok) =>
        /\ outcome.kind = "raise"
        /\ outcome.exc \notin NativErrors
        /\ outcome = Raised("JSONDecodeError")

\* C29 witness: delete_tm_entry got a 200 with an empty body
C29_Witness ==
    /\ ClientCall
    /\ call.op = "delete_tm_entry"
    /\ received = <<GotResponse([status_code |-> 200, text |-> ""])>>
    /\ outcome = Raised("JSONDecodeError")

\* the fields of an update_tm_entry call that are not None
SuppliedUpdate ==
    SetIf(call.args.enabled # None,
          SetIf(call.args.target_text # None, EmptyDict, "target_text",
                call.args.target_text),
          "enabled", call.args.enabled)

\* C30: update_tm_entry with a non-null target_text or enabled, falsy or
\* not, raises no local ValidationError: it sends one PATCH
\* /master-tm/entries/{id} whose JSON body is exactly the supplied fields,
\* and on a success returns the response's success field, false without one.
C30_FalsyUpdateIsSent ==
    (/\ ClientCall
     /\ call.op = "update_tm_entry"
     /\ (call.args.target_text # None \/ call.args.enabled # None)
     /\ (sent # <<>> \/ outcome # Pending)) =>
        /\ Len(sent) = 1
        /\ sent[1].method = "PATCH"
        /\ sent[1].path = "/master-tm/entries/" \o call.args.entry_id.s
        /\ sent[1].json = JObj(SuppliedUpdate)
        /\ sent[1].params = None /\ sent[1].data = None /\ sent[1].files = None
        /\ outcome # Pending => received # <<>>
        /\ (/\ received # <<>>
            /\ received[1].kind = "response"
            /\ is_success(received[1].resp)
            /\ FirstBody.ok
            /\ FirstBody.v.t = "obj") =>
              outcome = Returned(IF "success" \in DOMAIN FirstBody.v.o
                                 THEN FirstBody.v.o["success"]
                                 ELSE JBool(FALSE))

\* C30 witness: enabled=False alone was sent, and the response without a
\* success field gave false
C30_Witness ==
    /\ ClientCall
    /\ call.op = "update_tm_entry"
    /\ call.args.target_text = None
    /\ call.args.enabled = JBool(FALSE)
    /\ received = <<GotResponse([status_code |-> 200, text |-> "{}"])>>
    /\ sent[1].json = JObj(Dict1("enabled", JBool(FALSE)))
    /\ outcome = Returned(JBool(FALSE))

(***************************************************************************)
(* Further properties of the decoders.                                     *)
(***************************************************************************)
\* C25: a decoded BrandVoice whose exists flag is false has no prompt.
C25_NoPromptUnlessExists ==
    (call.op = "_parse_brand_voice" /\ outcome # Pending) =>
        /\ outcome.kind = "return"
        /\ outcome.value.exists = JBool(FALSE) => outcome.value.prompt = None

\* C26: a decoded TMEntryList has the server's offset and limit when the
\* response has them, else those of the caller; its entries are the
\* server's, decoded, in the server's order; its total is the server's when
\* present, else the number of entries.
C26_PageEchoedFromRequest ==
    (call.op = "_parse_tm_list" /\ outcome # Pending) =>
        LET data == call.data
            es == IF "entries" \in DOMAIN data THEN data["entries"].l ELSE <<>>
            list == outcome.value
        IN /\ outcome.kind = "return"
           /\ list.offset = IF "offset" \in DOMAIN data THEN data["offset"]
                            ELSE call.offset
           /\ list.limit = IF "limit" \in DOMAIN data THEN data["limit"]
                           ELSE call.limit
           /\ Len(list.entries) = Len(es)
           /\ \A i \in 1 .. Len(es) : list.entries[i] = _parse_tm_entry(es[i].o)
           /\ list.total = IF "total" \in DOMAIN data THEN data["total"]
                           ELSE JNum(Len(es))

\* C26 witness: two different entries and nothing else in the response, the
\* caller asked for offset 20 and limit 10
C26_Witness ==
    /\ call.op = "_parse_tm_list"
    /\ outcome # Pending
    /\ DOMAIN call.data = {"entries"}
    /\ call.data["entries"].l =
          <<JObj(FullTMEntry(TRUE, 80)), JObj(FullTMEntry(FALSE, 0))>>
    /\ call.offset = JNum(20)
    /\ call.limit = JNum(10)
    /\ outcome.value.offset = JNum(20)
    /\ outcome.value.limit = JNum(10)
    /\ outcome.value.total = JNum(2)
    /\ outcome.value.entries[1].enabled = JBool(TRUE)
    /\ outcome.value.entries[2].enabled = JBool(FALSE)

(***************************************************************************)
(* Properties of scoped use.                                               *)
(***************************************************************************)
\* how the body of the block ended, told from the call and what came back
BodyOutcome ==
    CASE call.body.kind = "pass" -> Returned(None)
      [] call.body.kind = "raise" -> Raised(call.body.exc)
      [] call.body.kind = "call" ->
            IF received = <<>> THEN Prepare(BodyCall(call))
            ELSE Completion(BodyCall(call), received[1])

\* C22: a with block on a client (Nativ or AsyncNativ) has closed the HTTP
\* client exactly once when it is left and not before, whether the body
\* ended normally or raised, and the with statement ends as its body did:
\* an exception of the body propagates.
C22_ScopeClosesOnce ==
    call \in ScopeCalls =>
        /\ pc # "left" => self["_client"].closes = 0
        /\ pc = "left" =>
              /\ self["_client"].closes = 1
              /\ outcome = BodyOutcome

\* C22 witness: the body of an async with block raised; the block was left
\* with one close and the exception
C22_Witness ==
    /\ call \in ScopeCalls
    /\ call.client = "AsyncNativ"
    /\ call.body.kind = "raise"
    /\ pc = "left"
    /\ self["_client"].closes = 1
    /\ outcome = Raised("ValueError")

(***************************************************************************)
(* Properties of the command line.                                         *)
(***************************************************************************)
\* the command refused its input before constructing a client
InputRejected == cmd_input(call).kind = "reject"

\* _get_client() raised
NoClient == ~InputRejected /\ _get_client(call.environ).outcome.kind = "raise"

\* main has returned while a request was unanswered: the run was interrupted
WasInterrupted == pc = "returned" /\ InFlight

\* how the client operation of a run that was not interrupted ended, told
\* from what came back last
OperationEnd ==
    IF received = <<>> THEN OperationStart(Operation).outcome
    ELSE OperationStep(Operation, results, received[Len(received)]).outcome

ExitCode(n) == outcome = Returned(JNum(n))

\* C23: main always returns, and no exception leaves it: 130 with the line
\* "Interrupted." when the command was interrupted; 1 with one line
\* "Error: ..." on stderr when the command refused its input, when the
\* client could not be constructed, or when the client operation raised
\* (the text of the exception follows "Error: "); 0 with nothing on stderr
\* when the operation returned - but for tm delete, which reports a falsy
\* result with its own line and 1.
C23_MainExitCodes ==
    call \in MainCalls =>
        /\ pc # "returned" => outcome = Pending /\ stderr = <<>>
        /\ pc = "returned" =>
              /\ outcome.kind = "return"
              /\ outcome.value \in {JNum(0), JNum(1), JNum(130)}
              /\ ExitCode(130) <=> WasInterrupted
              /\ CASE WasInterrupted -> stderr = <<"\nInterrupted.">>
                   [] InputRejected ->
                        /\ ExitCode(1)
                        /\ stderr = <<cmd_input(call).line>>
                        /\ SubSeq(stderr[1], 1, 7) = "Error: "
                   [] NoClient ->
                        /\ ExitCode(1)
                        /\ stderr = <<"Error: " \o
                              _get_client(call.environ).outcome.message>>
                   [] OTHER ->
                        \E o \in {OperationEnd} :
                           IF o.kind = "raise"
                           THEN /\ ExitCode(1)
                                /\ stderr = <<"Error: " \o ExceptionText(o)>>
                           ELSE IF call.command = "tm delete" /\ ~Truthy(o.value)
                           THEN /\ ExitCode(1)
                                /\ stderr = <<"Failed to delete e1">>
                           ELSE ExitCode(0) /\ stderr = <<>>

\* C23 witness: the server answered translate with an error; main printed
\* its message after "Error: " and returned 1
C23_Witness ==
    /\ call \in MainCalls
    /\ call.command = "translate"
    /\ pc = "returned"
    /\ Len(received) = 1
    /\ received[1] = GotResponse([status_code |-> 422,
                                  text |-> "{\"detail\": \"test error\"}"])
    /\ stderr = <<"Error: test error">>
    /\ ExitCode(1)

\* C24: a command that constructed a client has closed it exactly once when
\* main returns, however the operation ended (a return, an exception, an
\* interrupt), and not before; a command that refused its input, like one
\* whose client could not be constructed, has no client and sent nothing.
C24_CommandClosesClient ==
    call \in MainCalls =>
        IF InputRejected \/ NoClient \/ pc = "main"
        THEN self = NoAttributes /\ sent = <<>>
        ELSE /\ pc = "awaiting" => self["_client"].closes = 0
             /\ pc = "returned" => self["_client"].closes = 1

\* C24 witness: batch was interrupted while its second request was in
\* flight; its client is closed once
C24_Witness ==
    /\ call \in MainCalls
    /\ call.command = "batch"
    /\ pc = "returned"
    /\ Len(sent) = 2
    /\ Len(received) = 1
    /\ ExitCode(130)
    /\ self["_client"].closes = 1

(***************************************************************************)
(* Properties of concurrent calls.                                         *)
(***************************************************************************)
\* the end of operation c when gots come back for its requests one after
\* the other, res being what it has collected; Pending if gots run out
RECURSIVE Replay(_, _, _)
Replay(c, res, gots) ==
    IF gots = <<>> THEN Pending
    ELSE LET step == OperationStep(c, res, gots[1])
         IN IF step.kind = "done" THEN step.outcome
            ELSE Replay(c, step.results, Tail(gots))

\* how the call of task i ends on the responses to its own requests alone
OwnOutcome(i) ==
    IF OperationStart(call.tasks[i]).kind = "done"
    THEN OperationStart(call.tasks[i]).outcome
    ELSE Replay(call.tasks[i], <<>>, received[i])

\* C21: with several calls outstanding on one AsyncNativ, under every
\* interleaving of arrivals and resumptions, a task that is done holds the
\* decoding or the error of the responses to its own requests; a task is
\* suspended exactly while a request of its own is unanswered or answered
\* and not yet taken up; and the attributes of the client stay as
\* constructed.
C21_EachCallGetsItsOwnResponse ==
    call \in GatherCalls =>
        /\ self = ConstructedClient("AsyncNativ")
        /\ \A i \in AsyncTasks :
              /\ pc[i] = "done" => outcome[i] = OwnOutcome(i)
              /\ pc[i] # "done" => outcome[i] = Pending
              /\ pc[i] = "awaiting" <=> Len(sent[i]) = Len(received[i]) + 1
              /\ pc[i] # "awaiting" => Len(sent[i]) = Len(received[i])

\* C21 witness: two translate calls were in flight together; the second
\* was answered with an error and has raised it, the first is answered with
\* a translation and has not been resumed yet
C21_Witness ==
    /\ call \in GatherCalls
    /\ call.tasks[1].op = "translate"
    /\ call.tasks[2].op = "translate"
    /\ pc[1] = "ready"
    /\ received[1] = <<GotResponse([status_code |-> 200,
                          text |-> "{\"translated_text\": \"Bonjour\"}"])>>
    /\ pc[2] = "done"
    /\ received[2] = <<GotResponse([status_code |-> 404,
                          text |-> "{\"detail\": \"test error\"}"])>>
    /\ outcome[1] = Pending
    /\ outcome[2].kind = "raise"
    /\ outcome[2].exc = "NotFoundError"

====
